---- MODULE Spec2Model ----
(***************************************************************************)
(* Model of the WordPress backup tool: the backup orchestrator             *)
(* (src/core/backup.py) driving a backup source provider and a storage     *)
(* sink provider through their capability interfaces                       *)
(* (src/providers/base.py), the way the `backup` command ends (src/cli.py), *)
(* and three components of src/security on their own: the secret masking   *)
(* applied to error text and the lookup of secrets (secrets.py), and the   *)
(* configuration validator and its sanitizer (validator.py); further the   *)
(* Google Drive provider (src/providers/gdrive.py), the four commands of   *)
(* src/cli.py, and two backup runs that share one backup directory.        *)
(*                                                                         *)
(* Spec is a backup run; SpecMask, SpecSecrets, SpecValidator,             *)
(* SpecSanitizer, SpecDrive, SpecCommand and SpecRuns exercise one         *)
(* component each while the others stay idle.                              *)
(*                                                                         *)
(* Text is modelled as a sequence of one-character strings, so that the    *)
(* regular-expression substitutions of mask_sensitive_data are computed    *)
(* character by character.  An Optional value is <<>> (None) or <<v>>.      *)
(***************************************************************************)
EXTENDS Integers, Sequences, FiniteSets, TLC

(***************************************************************************)
(* Characters and character classes of Python's re module (ASCII part).    *)
(***************************************************************************)
LowerCase == <<"a", "b", "c", "d", "e", "f", "g", "h", "i", "j", "k", "l", "m", "n", "o", "p", "q", "r", "s", "t", "u", "v", "w", "x", "y", "z">>
UpperCase == <<"A", "B", "C", "D", "E", "F", "G", "H", "I", "J", "K", "L", "M", "N", "O", "P", "Q", "R", "S", "T", "U", "V", "W", "X", "Y", "Z">>
Digits == <<"0", "1", "2", "3", "4", "5", "6", "7", "8", "9">>

\* the set of elements of a sequence
Range(s) == {s[i] : i \in 1..Len(s)}

\* \w : letters, digits and the underscore
WordChars == Range(LowerCase) \cup Range(UpperCase) \cup Range(Digits) \cup {"_"}

\* \s : whitespace
SpaceChars == {" ", "\t", "\n", "\r"}

\* ["\'] : the two quote characters
QuoteChars == {"\"", "'"}

\* re.IGNORECASE: a character folded to lower case
Lower(c) ==
    IF \E i \in 1..Len(UpperCase) : UpperCase[i] = c
    THEN LowerCase[CHOOSE i \in 1..Len(UpperCase) : UpperCase[i] = c]
    ELSE c

\* the literal w (given in lower case) occurs in s at position p, ignoring case
Lit(s, p, w) ==
    /\ p >= 1
    /\ p + Len(w) - 1 <= Len(s)
    /\ \A i \in 1..Len(w) : Lower(s[p + i - 1]) = w[i]

\* greedy [S]* from p: the first position at or after p whose character is
\* not in S (Len(s) + 1 when the run reaches the end of the text)
SpanIn(s, p, S) ==
    CHOOSE q \in p..(Len(s) + 1) :
        /\ (q = Len(s) + 1 \/ s[q] \notin S)
        /\ \A r \in p..(q - 1) : s[r] \in S

\* greedy [^S]* from p
SpanNotIn(s, p, S) ==
    CHOOSE q \in p..(Len(s) + 1) :
        /\ (q = Len(s) + 1 \/ s[q] \in S)
        /\ \A r \in p..(q - 1) : s[r] \notin S

\* ["\']? at p: the position after the optional quote
SkipQuote(s, p) == IF p <= Len(s) /\ s[p] \in QuoteChars THEN p + 1 ELSE p

\* the replacement text of every pattern
Stars == <<"*", "*", "*">>

NoMatch == [ok |-> FALSE, from |-> 0, to |-> 0, end |-> 0]

(***************************************************************************)
(* SecretManager.mask_sensitive_data: five substitutions, each applied to   *)
(* the output of the previous one.  A match is a record: the text from      *)
(* `from` up to (not including) `to` is replaced by ***, the match ends     *)
(* before `end`.                                                           *)
(***************************************************************************)
KwPassword == <<"p", "a", "s", "s", "w", "o", "r", "d">>
KwApi == <<"a", "p", "i">>
KwKey == <<"k", "e", "y">>
KwAccess == <<"a", "c", "c", "e", "s", "s">>
KwToken == <<"t", "o", "k", "e", "n">>
KwHttp == <<"h", "t", "t", "p">>
KwSchemeSep == <<":", "/", "/">>
PathMarkers == {<<"s", "e", "c", "r", "e", "t">>, <<"p", "r", "i", "v", "a", "t", "e">>, <<"k", "e", "y">>, <<"c", "r", "e", "d", "e", "n", "t", "i", "a", "l">>}

\* ["\']?\s*[:=]\s*["\']?)([^"\'\s]+)(["\']?) read from position a, the
\* position after the keyword of a match that started earlier
MatchAssignTail(s, a) ==
    LET c == SpanIn(s, SkipQuote(s, a), SpaceChars)
    IN  IF c > Len(s) \/ s[c] \notin {":", "="} THEN NoMatch
        ELSE LET e == SkipQuote(s, SpanIn(s, c + 1, SpaceChars))
                 f == SpanNotIn(s, e, QuoteChars \cup SpaceChars)
             IN  IF f = e THEN NoMatch
                 ELSE [ok |-> TRUE, from |-> e, to |-> f, end |-> SkipQuote(s, f)]

\* (password["\']?\s*[:=]\s*["\']?)([^"\'\s]+)(["\']?)  ->  \1***\3
MatchPassword(s, p) ==
    IF Lit(s, p, KwPassword) THEN MatchAssignTail(s, p + Len(KwPassword)) ELSE NoMatch

\* [_-]? at p
SkipSep(s, p) == IF p <= Len(s) /\ s[p] \in {"_", "-"} THEN p + 1 ELSE p

\* w1[_-]?w2 at p: the position after it, or 0
KeywordPair(s, p, w1, w2) ==
    IF Lit(s, p, w1) /\ Lit(s, SkipSep(s, p + Len(w1)), w2)
    THEN SkipSep(s, p + Len(w1)) + Len(w2)
    ELSE 0

\* ((?:api[_-]?key|access[_-]?token)["\']?\s*[:=]\s*["\']?)([^"\'\s]+)(["\']?)
MatchApiKey(s, p) ==
    LET a1 == KeywordPair(s, p, KwApi, KwKey)
        a2 == KeywordPair(s, p, KwAccess, KwToken)
    IN  IF a1 # 0 /\ MatchAssignTail(s, a1).ok THEN MatchAssignTail(s, a1)
        ELSE IF a2 # 0 THEN MatchAssignTail(s, a2)
        ELSE NoMatch

\* (https?://[^:]+:)([^@]+)(@)  ->  \1***\3
MatchUrl(s, p) ==
    IF ~Lit(s, p, KwHttp) THEN NoMatch
    ELSE LET a == IF Lit(s, p + Len(KwHttp), <<"s">>) /\ Lit(s, p + Len(KwHttp) + 1, KwSchemeSep)
                  THEN p + Len(KwHttp) + 1 ELSE p + Len(KwHttp)
         IN  IF ~Lit(s, a, KwSchemeSep) THEN NoMatch
             ELSE LET b == a + Len(KwSchemeSep)
                      c == SpanNotIn(s, b, {":"})
                  IN  IF c = b \/ c > Len(s) THEN NoMatch
                      ELSE LET d == SpanNotIn(s, c + 1, {"@"})
                           IN  IF d = c + 1 \/ d > Len(s) THEN NoMatch
                               ELSE [ok |-> TRUE, from |-> c + 1, to |-> d, end |-> d + 1]

\* (\w+)(@\w+\.\w+)  ->  ***\2
MatchEmail(s, p) ==
    LET a == SpanIn(s, p, WordChars)
    IN  IF a = p \/ a > Len(s) \/ s[a] # "@" THEN NoMatch
        ELSE LET b == SpanIn(s, a + 1, WordChars)
             IN  IF b = a + 1 \/ b > Len(s) \/ s[b] # "." THEN NoMatch
                 ELSE LET c == SpanIn(s, b + 1, WordChars)
                      IN  IF c = b + 1 THEN NoMatch
                          ELSE [ok |-> TRUE, from |-> p, to |-> a, end |-> c]

\* (/[^/]*(?:secret|private|key|credential)[^/]*/)([^/\s]+)  ->  \1***
MatchPath(s, p) ==
    IF p > Len(s) \/ s[p] # "/" THEN NoMatch
    ELSE LET a == SpanNotIn(s, p + 1, {"/"})
         IN  IF a > Len(s) THEN NoMatch
             ELSE IF ~\E w \in PathMarkers : \E i \in (p + 1)..(a - 1) :
                          Lit(s, i, w) /\ i + Len(w) <= a
             THEN NoMatch
             ELSE LET b == SpanNotIn(s, a + 1, {"/"} \cup SpaceChars)
                  IN  IF b = a + 1 THEN NoMatch
                      ELSE [ok |-> TRUE, from |-> a + 1, to |-> b, end |-> b]

\* the k-th entry of the patterns list, tried at position p
Match(k, s, p) ==
    CASE k = 1 -> MatchPassword(s, p)
      [] k = 2 -> MatchApiKey(s, p)
      [] k = 3 -> MatchUrl(s, p)
      [] k = 4 -> MatchEmail(s, p)
      [] OTHER -> MatchPath(s, p)

\* re.sub(pattern k, replacement, s) from position p on: the leftmost match,
\* then the next one after its end
RECURSIVE SubFrom(_, _, _)
SubFrom(k, s, p) ==
    IF p > Len(s) THEN <<>>
    ELSE LET m == Match(k, s, p)
         IN  IF m.ok
             THEN SubSeq(s, p, m.from - 1) \o Stars \o SubSeq(s, m.to, m.end - 1)
                      \o SubFrom(k, s, m.end)
             ELSE <<s[p]>> \o SubFrom(k, s, p + 1)

\* the number of entries of the patterns list
NumPatterns == 5

RECURSIVE ApplyPatterns(_, _)
ApplyPatterns(k, s) ==
    IF k > NumPatterns THEN s ELSE ApplyPatterns(k + 1, SubFrom(k, s, 1))

mask_sensitive_data(text) ==
    IF text = <<>> THEN text ELSE ApplyPatterns(1, text)

(***************************************************************************)
(* Bounds of the model and the inputs drawn within them.                   *)
(***************************************************************************)
\* the largest advance of the wall clock during one operation
MaxTick == 1

\* the largest count cleanup_old_files returns
MaxCleaned == 2

None == <<>>
Some(v) == <<v>>

\* str(e) of the exceptions a provider or the file system raises
ExceptionMessages == {<<>>, <<"d", "i", "s", "k", " ", "f", "u", "l", "l">>, <<"p", "a", "s", "s", "w", "o", "r", "d", "=", "h", "u", "n", "t", "e", "r", "2">>}

\* identifiers upload returns (Optional[str]: the empty string is not None)
FileIds == {"file123", ""}

\* the path create_backup returns
ArchivePath == "backup_dir/backup_domain_timestamp.tar.gz"

\* values of config.google_drive.retention_days
RetentionChoices == {7, 30}

\* the error texts execute_backup assigns
SetupValidationFailed == <<"S", "e", "t", "u", "p", " ", "v", "a", "l", "i", "d", "a", "t", "i", "o", "n", " ", "f", "a", "i", "l", "e", "d">>
ProviderAuthenticationFailed == <<"P", "r", "o", "v", "i", "d", "e", "r", " ", "a", "u", "t", "h", "e", "n", "t", "i", "c", "a", "t", "i", "o", "n", " ", "f", "a", "i", "l", "e", "d">>
BackupCreationFailed == <<"B", "a", "c", "k", "u", "p", " ", "c", "r", "e", "a", "t", "i", "o", "n", " ", "f", "a", "i", "l", "e", "d">>
UploadFailedText == <<"U", "p", "l", "o", "a", "d", " ", "f", "a", "i", "l", "e", "d">>

(***************************************************************************)
(* State.                                                                  *)
(***************************************************************************)
VARIABLES
    pc,             \* the stage execute_backup is about to run
    result,         \* the BackupResult of the run
    calls,          \* the provider operations invoked so far, in order
    outcome,        \* what each provider operation returned
    backup_file,    \* local of execute_backup: create_backup's return value
    file_id,        \* local of execute_backup: upload's return value
    cleaned,        \* local of execute_backup: cleanup_old_files's return value
    cleanup_arg,    \* the argument cleanup_old_files was called with
    exc,            \* str(e) of the exception execute_backup's handler caught
    start_time,     \* local of execute_backup
    clock,          \* time.time()
    config,         \* the Config of the orchestrator
    fs,             \* the local disk: the run's temporary directory and backup_dir
    local_cleanups, \* how many times _cleanup_local_files ran
    log,            \* the error texts written from an exception or from stderr
    interrupted,    \* a KeyboardInterrupt was raised during the run
    cli,            \* the `backup` command: what it reported and its exit code
    masking,        \* a text and what mask_sensitive_data made of it
    secrets,        \* one get_secret call: its sources and what it returned
    validator,      \* a ConfigValidator: its report and its last call
    sanitizer,      \* one sanitize_config_for_logging call: its input and output
    drive,          \* a GoogleDriveProvider and the Drive account it talks to
    command,        \* one CLI command: what happened in it and its exit code
    runs            \* two backup runs that share one backup directory

\* the state of the backup run
runVars == <<pc, result, calls, outcome, backup_file, file_id, cleaned, cleanup_arg,
             exc, start_time, clock, config, fs, local_cleanups, log, interrupted, cli>>

runVarsButCli == <<pc, result, calls, outcome, backup_file, file_id, cleaned,
                   cleanup_arg, exc, start_time, clock, config, fs, local_cleanups,
                   log, interrupted>>

\* the components modelled on their own, apart from the first three
extraVars == <<sanitizer, drive, command, runs>>

vars == <<runVars, masking, secrets, validator, extraVars>>

\* the provider operations, in the order execute_backup reaches them
Operations == <<"validate_setup", "backup.authenticate", "storage.authenticate",
                "create_backup", "upload", "configure_access", "cleanup_old_files">>

\* BackupResult(): the defaults of the dataclass
BackupResult ==
    [success |-> FALSE, backup_id |-> None, error |-> None, files_cleaned |-> 0,
     duration |-> None, backup_size |-> None]

\* backup_dir has no entry
BackupDirEmpty(f) == f.archive = "none" /\ ~f.other_files

\* no text has been given to mask_sensitive_data
MaskingIdle == [text |-> <<>>, once |-> None, twice |-> None]

\* no get_secret call is under way
SecretsIdle == [key |-> <<>>, environ |-> None, files |-> <<>>, prompt |-> None,
                typed |-> [kind |-> "text", text |-> <<>>], prompted |-> FALSE,
                raised |-> FALSE, done |-> FALSE, value |-> None]
ValidatorIdle == [errors |-> <<>>, warnings |-> <<>>, config |-> None, returns |-> <<>>]
SanitizerIdle == [config |-> <<>>, before |-> <<>>, output |-> <<>>, done |-> FALSE]

\* what one call on the provider did; the fields a call does not use keep
\* these values
NoCall ==
    [op |-> "none", returned |-> "none", count |-> 0, api_calls |-> 0,
     token |-> "missing", loaded |-> "none", refreshed |-> "no", flow |-> "no",
     built |-> "none", service_before |-> "none", folder_before |-> FALSE,
     resolved |-> FALSE,
     emails |-> <<>>, make_public |-> FALSE, grants |-> <<>>,
     retention_days |-> 0, files_before |-> {}, listed |-> FALSE, attempted |-> {},
     failing |-> {}]

DriveIdle ==
    [phase |-> "idle", token_file |-> "missing", service |-> "none",
     authenticated |-> FALSE, folder_id |-> FALSE, resolutions |-> 0,
     files |-> {}, utc_offset |-> 0, last |-> NoCall]

\* one invocation of a command of cli.py: its options, what its environment
\* does, and how it ended
CommandIdle ==
    [name |-> "none", phase |-> "idle",
     dry_run |-> FALSE, load |-> "ok", run |-> "none",
     exists |-> FALSE, response |-> "none", template |-> "ok",
     test_wordpress |-> FALSE, test_gdrive |-> FALSE,
     wp_validate |-> "none", wp_auth |-> "none", gd_auth |-> "none",
     issues |-> FALSE, env_issues |-> FALSE, scan |-> "ok",
     succeeded |-> FALSE, failure |-> "none", exit_code |-> None]

\* the two backup runs that share one backup directory
RunIds == {"A", "B"}

\* the backup directory (whether it exists, whether it holds files of
\* neither run, each run's archive in it) and, for each run, where it is,
\* how its _create_combined_backup ended and whether upload found the archive
RunsIdle ==
    [phase |-> "idle", dir |-> FALSE, other_files |-> FALSE,
     files |-> [r \in RunIds |-> "none"],
     pc |-> [r \in RunIds |-> "start"],
     create |-> [r \in RunIds |-> "pending"],
     upload |-> [r \in RunIds |-> "pending"]]

ExtraIdle ==
    /\ sanitizer = SanitizerIdle
    /\ drive = DriveIdle
    /\ command = CommandIdle
    /\ runs = RunsIdle

CliRunning == [outcome |-> "running", exit_code |-> None]

\* a backup run of the `backup` command is about to start
RunInit ==
    /\ pc = "start"
    /\ result = BackupResult
    /\ calls = <<>>
    /\ outcome = [op \in Range(Operations) |-> "not_called"]
    /\ backup_file = None
    /\ file_id = None
    /\ cleaned = 0
    /\ cleanup_arg = None
    /\ exc = None
    /\ start_time = 0
    /\ clock \in 0..MaxTick
    /\ config \in [retention_days : RetentionChoices]
    /\ local_cleanups = 0
    /\ fs \in {f \in [temp_dir : {"none"}, backup_dir : BOOLEAN, archive : {"none"},
                      other_files : BOOLEAN] : f.other_files => f.backup_dir}
    /\ log = {}
    /\ interrupted = FALSE
    /\ cli = CliRunning

\* no backup run: the state of the run while another component is exercised
RunIdle ==
    /\ pc = "idle"
    /\ result = BackupResult
    /\ calls = <<>>
    /\ outcome = [op \in Range(Operations) |-> "not_called"]
    /\ backup_file = None
    /\ file_id = None
    /\ cleaned = 0
    /\ cleanup_arg = None
    /\ exc = None
    /\ start_time = 0
    /\ clock = 0
    /\ config = [retention_days |-> 7]
    /\ local_cleanups = 0
    /\ fs = [temp_dir |-> "none", backup_dir |-> FALSE, archive |-> "none",
             other_files |-> FALSE]
    /\ log = {}
    /\ interrupted = FALSE
    /\ cli = CliRunning

Init ==
    /\ RunInit
    /\ masking = MaskingIdle
    /\ secrets = SecretsIdle
    /\ validator = ValidatorIdle
    /\ ExtraIdle

(***************************************************************************)
(* Mutations of the orchestrator used to show that the properties below    *)
(* depend on the code they are about.                                      *)
(***************************************************************************)
\* the sink's authenticate result is not looked at
StorageAuthIgnored(o) == TRUE

\* _validate_setup without its `except ... return False`: only an explicit
\* false stops the run
ValidateSetupRaiseOk(o) == o # "false"

\* the source's authenticate result is not looked at
BackupAuthIgnored(o) == TRUE

\* the `if not backup_file` check dropped
BackupFileNeverMissing(v) == FALSE

\* the `if not file_id` check dropped
UploadNeverFailed(v) == FALSE

\* files_cleaned left at its default
SuccessResultNoCount(res, id, n, elapsed) ==
    [res EXCEPT !.success = TRUE, !.backup_id = id, !.duration = Some(elapsed)]

\* no `finally`: the run returns without _cleanup_local_files
NoFinally == "done"

\* a directory made with mkdtemp and never removed
LeaveTemporaryDirectory(f) == f


\* the finally clause swallows a pending KeyboardInterrupt
AfterFinallyReturns(pending) == "done"

\* the env files are read in the opposite order
env_file_paths_reversed == <<".env", ".env.local">>

\* the lists of the validator are not emptied
NotCleared(list) == list

\* the upper limit of the retention is left out of the range
RetentionRejectedAt365(v) ==
    v.type # "none" /\ (v.type \notin {"int", "bool"} \/ v.n < 1 \/ v.n >= 365)

\* a token file that cannot be loaded is taken for a credential that is not valid
LoadedCredentialKeepsCorrupt(token_file) ==
    IF token_file = "missing" THEN "none"
    ELSE IF token_file = "corrupt" THEN "invalid"
    ELSE token_file

\* a failed grant ends the loop over the grants
AbortAfterFailedGrant(i, n) == n + 1

(***************************************************************************)
(* Pieces of execute_backup that the stages share.                         *)
(***************************************************************************)
\* a provider operation is invoked and returns (or raises) after d ticks
Invoke(op, o, d) ==
    /\ calls' = Append(calls, op)
    /\ outcome' = [outcome EXCEPT ![op] = o]
    /\ clock' = clock + d

\* _validate_setup: True only when validate_setup returned true; an exception
\* is caught and turned into False
ValidateSetupOk(o) == o = "true"

\* _authenticate_providers, the source: `if not self.backup_provider.authenticate()`
\* with the exception handler of the method
BackupAuthOk(o) == o = "true"

\* _authenticate_providers, the sink: `if not self.storage_provider.authenticate()`
StorageAuthOk(o) == o = "true"

\* `if not backup_file`
BackupFileMissing(v) == v = None \/ v = Some("")

\* `if not file_id`
UploadFailed(v) == v = None \/ v = Some("")

\* `result.error = <text>; return result`
FailWith(res, text) == [res EXCEPT !.error = Some(text)]

\* `except Exception as e: result.error = mask_sensitive_data(str(e))`
ExceptHandler(res, msg) == [res EXCEPT !.error = Some(mask_sensitive_data(msg))]

\* TemporaryDirectory.__exit__: the directory and its content are removed
ExitTemporaryDirectory(f) ==
    [f EXCEPT !.temp_dir = IF @ = "exists" THEN "removed" ELSE @]

\* the `finally` clause: every way out of the try block goes through
\* _cleanup_local_files
AfterTry == "local_cleanup"

\* lines 71-74: the successful result
SuccessResult(res, id, n, elapsed) ==
    [res EXCEPT !.success = TRUE, !.backup_id = id, !.files_cleaned = n,
                !.duration = Some(elapsed)]

\* the kind of value an Optional[str] return is
KindOf(v) == IF v = None THEN "none" ELSE IF v = Some("") THEN "empty" ELSE "value"

\* the variables of the components that take no part in a backup run
otherVars == <<masking, secrets, validator, extraVars>>

\* an error text written to the console: where, what was written in place of
\* the exception message or stderr text, and that message or text itself
LogEntry(site, text, e) == [site |-> site, text |-> text, exception |-> e]

\* _validate_setup, line 103: f"Setup validation failed: {e}"
ValidateSetupLogText(msg) == msg

\* _authenticate_providers, lines 125-126: the masked message
AuthenticateLogText(msg) == mask_sensitive_data(msg)

\* _cleanup_local_files, line 163: f"Local cleanup warning: {e}"
CleanupLogText(msg) == msg

\* GoogleDriveProvider.upload, line 273: f"Upload failed: {e}"
UploadLogText(msg) == msg

\* WordPressProvider._backup_database, lines 304 and 316: the stderr of gzip
\* goes into the exception message and from there into the log
BackupDatabaseLogText(msg) == msg

\* what a helper that catches exceptions writes when the operation ended as o
HelperLog(site, o, text, msg) ==
    IF o = "raise" THEN log \cup {LogEntry(site, text, msg)} ELSE log

\* a KeyboardInterrupt during a stage: it is no Exception, so no handler of
\* the run catches it; the `with` block is left and the finally clause runs
Interrupt ==
    /\ interrupted' = TRUE
    /\ fs' = ExitTemporaryDirectory(fs)
    /\ pc' = AfterTry
    /\ UNCHANGED <<result, exc, log>>

(***************************************************************************)
(* execute_backup, one action per stage.                                   *)
(***************************************************************************)
\* lines 32-37: start_time and the fresh result
Start ==
    /\ pc = "start"
    /\ start_time' = clock
    /\ result' = BackupResult
    /\ pc' = "validate"
    /\ UNCHANGED <<calls, outcome, backup_file, file_id, cleaned, cleanup_arg, exc,
                   clock, config, fs, local_cleanups, log, interrupted, cli, otherVars>>

\* lines 39-42 with _validate_setup
ValidateSetup ==
    /\ pc = "validate"
    /\ \E d \in 0..MaxTick :
        \/ \E o \in {"true", "false", "raise"}, msg \in ExceptionMessages :
            /\ o # "raise" => msg = <<>>
            /\ Invoke("validate_setup", o, d)
            /\ log' = HelperLog("backup._validate_setup", o, ValidateSetupLogText(msg), msg)
            /\ IF ValidateSetupOk(o)
               THEN /\ pc' = "auth_backup"
                    /\ result' = result
               ELSE /\ pc' = AfterTry
                    /\ result' = FailWith(result, SetupValidationFailed)
            /\ UNCHANGED <<exc, fs, interrupted>>
        \/ /\ Invoke("validate_setup", "interrupt", d)
           /\ Interrupt
    /\ UNCHANGED <<backup_file, file_id, cleaned, cleanup_arg, start_time,
                   config, local_cleanups, cli, otherVars>>

\* lines 44-47 with _authenticate_providers, the source provider
AuthenticateBackupProvider ==
    /\ pc = "auth_backup"
    /\ \E d \in 0..MaxTick :
        \/ \E o \in {"true", "false", "raise"}, msg \in ExceptionMessages :
            /\ o # "raise" => msg = <<>>
            /\ Invoke("backup.authenticate", o, d)
            /\ log' = HelperLog("backup._authenticate_providers", o,
                                AuthenticateLogText(msg), msg)
            /\ IF BackupAuthOk(o)
               THEN /\ pc' = "auth_storage"
                    /\ result' = result
               ELSE /\ pc' = AfterTry
                    /\ result' = FailWith(result, ProviderAuthenticationFailed)
            /\ UNCHANGED <<exc, fs, interrupted>>
        \/ /\ Invoke("backup.authenticate", "interrupt", d)
           /\ Interrupt
    /\ UNCHANGED <<backup_file, file_id, cleaned, cleanup_arg, start_time,
                   config, local_cleanups, cli, otherVars>>

\* lines 44-47 with _authenticate_providers, the sink provider
AuthenticateStorageProvider ==
    /\ pc = "auth_storage"
    /\ \E d \in 0..MaxTick :
        \/ \E o \in {"true", "false", "raise"}, msg \in ExceptionMessages :
            /\ o # "raise" => msg = <<>>
            /\ Invoke("storage.authenticate", o, d)
            /\ log' = HelperLog("backup._authenticate_providers", o,
                                AuthenticateLogText(msg), msg)
            /\ IF StorageAuthOk(o)
               THEN /\ pc' = "acquire"
                    /\ result' = result
               ELSE /\ pc' = AfterTry
                    /\ result' = FailWith(result, ProviderAuthenticationFailed)
            /\ UNCHANGED <<exc, fs, interrupted>>
        \/ /\ Invoke("storage.authenticate", "interrupt", d)
           /\ Interrupt
    /\ UNCHANGED <<backup_file, file_id, cleaned, cleanup_arg, start_time,
                   config, local_cleanups, cli, otherVars>>

\* an exception raised inside the try block: the temporary directory, if
\* entered, is left, then the handler of lines 77-79 records and logs the
\* masked message
Raised(msg) ==
    /\ exc' = Some(msg)
    /\ result' = ExceptHandler(result, msg)
    /\ log' = log \cup {LogEntry("backup.execute_backup", mask_sensitive_data(msg), msg)}
    /\ fs' = ExitTemporaryDirectory(fs)
    /\ pc' = AfterTry
    /\ interrupted' = interrupted

\* line 50: TemporaryDirectory(prefix='wp_backup_') creates the directory, or
\* raises when it cannot
AcquireTempDir ==
    /\ pc = "acquire"
    /\ \/ /\ fs' = [fs EXCEPT !.temp_dir = "exists"]
          /\ pc' = "create_backup"
          /\ UNCHANGED <<result, exc, log, interrupted>>
       \/ \E msg \in ExceptionMessages : Raised(msg)
    /\ UNCHANGED <<calls, outcome, backup_file, file_id, cleaned, cleanup_arg,
                   start_time, clock, config, local_cleanups, cli, otherVars>>

\* what create_backup leaves in backup_dir (WordPressProvider.create_backup
\* with _create_combined_backup): a returned path names a complete archive;
\* None is returned before backup_dir is touched, after makedirs, after a
\* partly written archive, or after a complete one whose size cannot be read
CreateBackupEffects(f, kind) ==
    IF kind = "value"
    THEN {[f EXCEPT !.backup_dir = TRUE, !.archive = "complete"]}
    ELSE IF kind = "none"
    THEN {f} \cup {[f EXCEPT !.backup_dir = TRUE, !.archive = a] :
                      a \in {"none", "partial", "complete"}}
    ELSE {f}

\* what a provider operation that returned v may have written to the log: a
\* value comes without an error text; None comes either without one (a
\* precondition failed) or with one of the entries of a helper that caught an
\* exception
ProviderLogs(v, entries) ==
    IF v = None
    THEN {log} \cup {log \cup {e} : e \in entries}
    ELSE {log}

\* lines 53-56
CreateBackup ==
    /\ pc = "create_backup"
    /\ \E d \in 0..MaxTick :
        \/ \E v \in {None, Some(""), Some(ArchivePath)} :
           \E f \in CreateBackupEffects(fs, KindOf(v)) :
            /\ Invoke("create_backup", KindOf(v), d)
            /\ backup_file' = v
            /\ exc' = exc
            /\ interrupted' = interrupted
            /\ log' \in ProviderLogs(v, {LogEntry("wordpress._backup_database",
                                                    BackupDatabaseLogText(msg), msg) :
                                           msg \in ExceptionMessages})
            /\ IF BackupFileMissing(v)
               THEN /\ result' = FailWith(result, BackupCreationFailed)
                    /\ fs' = ExitTemporaryDirectory(f)
                    /\ pc' = AfterTry
               ELSE /\ result' = result
                    /\ fs' = f
                    /\ pc' = "upload"
        \/ \E msg \in ExceptionMessages :
            /\ Invoke("create_backup", "raise", d)
            /\ backup_file' = backup_file
            /\ Raised(msg)
        \/ \E f \in CreateBackupEffects(fs, "none") :
            /\ Invoke("create_backup", "interrupt", d)
            /\ backup_file' = backup_file
            /\ interrupted' = TRUE
            /\ fs' = ExitTemporaryDirectory(f)
            /\ pc' = AfterTry
            /\ UNCHANGED <<result, exc, log>>
    /\ UNCHANGED <<file_id, cleaned, cleanup_arg, start_time, config, local_cleanups,
                   cli, otherVars>>

\* lines 58-62
Upload ==
    /\ pc = "upload"
    /\ \E d \in 0..MaxTick :
        \/ \E v \in {None} \cup {Some(i) : i \in FileIds} :
            /\ Invoke("upload", KindOf(v), d)
            /\ file_id' = v
            /\ exc' = exc
            /\ interrupted' = interrupted
            /\ log' \in ProviderLogs(v, {LogEntry("gdrive.upload", UploadLogText(msg), msg) :
                                           msg \in ExceptionMessages})
            /\ IF UploadFailed(v)
               THEN /\ result' = FailWith(result, UploadFailedText)
                    /\ fs' = ExitTemporaryDirectory(fs)
                    /\ pc' = AfterTry
               ELSE /\ result' = result
                    /\ fs' = fs
                    /\ pc' = "configure_access"
        \/ \E msg \in ExceptionMessages :
            /\ Invoke("upload", "raise", d)
            /\ file_id' = file_id
            /\ Raised(msg)
        \/ /\ Invoke("upload", "interrupt", d)
           /\ file_id' = file_id
           /\ Interrupt
    /\ UNCHANGED <<backup_file, cleaned, cleanup_arg, start_time, config, local_cleanups,
                   cli, otherVars>>

\* lines 64-65: the return value of configure_access is not looked at
ConfigureAccess ==
    /\ pc = "configure_access"
    /\ \E d \in 0..MaxTick :
        \/ \E o \in {"true", "false"} :
            /\ Invoke("configure_access", o, d)
            /\ pc' = "cleanup_old_files"
            /\ UNCHANGED <<result, exc, fs, log, interrupted>>
        \/ \E msg \in ExceptionMessages :
            /\ Invoke("configure_access", "raise", d)
            /\ Raised(msg)
        \/ /\ Invoke("configure_access", "interrupt", d)
           /\ Interrupt
    /\ UNCHANGED <<backup_file, file_id, cleaned, cleanup_arg, start_time, config,
                   local_cleanups, cli, otherVars>>

\* lines 67-68
CleanupOldFiles ==
    /\ pc = "cleanup_old_files"
    /\ cleanup_arg' = Some(config.retention_days)
    /\ \E d \in 0..MaxTick :
        \/ \E n \in 0..MaxCleaned :
            /\ Invoke("cleanup_old_files", "value", d)
            /\ cleaned' = n
            /\ pc' = "prepare_result"
            /\ UNCHANGED <<result, exc, fs, log, interrupted>>
        \/ \E msg \in ExceptionMessages :
            /\ Invoke("cleanup_old_files", "raise", d)
            /\ cleaned' = cleaned
            /\ Raised(msg)
        \/ /\ Invoke("cleanup_old_files", "interrupt", d)
           /\ cleaned' = cleaned
           /\ Interrupt
    /\ UNCHANGED <<backup_file, file_id, start_time, config, local_cleanups,
                   cli, otherVars>>

\* lines 70-75: the result is marked successful, then get_file_size reads the
\* size of the archive (os.path.getsize raises OSError when it cannot), then
\* the `with` block is left
PrepareResult ==
    /\ pc = "prepare_result"
    /\ LET ok == SuccessResult(result, file_id, cleaned, clock - start_time)
       IN  \/ /\ result' = [ok EXCEPT !.backup_size = Some("size")]
              /\ exc' = exc
              /\ log' = log
           \/ \E msg \in ExceptionMessages :
              /\ result' = ExceptHandler(ok, msg)
              /\ exc' = Some(msg)
              /\ log' = log \cup {LogEntry("backup.execute_backup",
                                           mask_sensitive_data(msg), msg)}
    /\ fs' = ExitTemporaryDirectory(fs)
    /\ pc' = AfterTry
    /\ UNCHANGED <<calls, outcome, backup_file, file_id, cleaned, cleanup_arg,
                   start_time, clock, config, local_cleanups, interrupted,
                   cli, otherVars>>

\* _cleanup_local_files: backup_dir is removed when it exists and is empty;
\* an OSError of iterdir or rmdir is passed over, any other exception is
\* logged as a warning
CleanupLocalFilesEffect(f, io) ==
    IF io = "ok" /\ f.backup_dir /\ BackupDirEmpty(f)
    THEN [f EXCEPT !.backup_dir = FALSE]
    ELSE f

\* where execute_backup ends after the finally clause: `return result` on
\* line 85, or the pending KeyboardInterrupt goes on to the caller
AfterFinally(pending) == IF pending THEN "raised" ELSE "done"

\* lines 81-85: the finally clause, then `return result`
CleanupLocalFiles ==
    /\ pc = "local_cleanup"
    /\ \/ \E io \in {"ok", "oserror"} :
            /\ fs' = CleanupLocalFilesEffect(fs, io)
            /\ log' = log
            /\ interrupted' = interrupted
       \/ \E msg \in ExceptionMessages :
            /\ fs' = CleanupLocalFilesEffect(fs, "exception")
            /\ log' = log \cup {LogEntry("backup._cleanup_local_files",
                                         CleanupLogText(msg), msg)}
            /\ interrupted' = interrupted
       \/ /\ fs' \in {fs, CleanupLocalFilesEffect(fs, "ok")}
          /\ log' = log
          /\ interrupted' = TRUE
    /\ local_cleanups' = local_cleanups + 1
    /\ pc' = AfterFinally(interrupted')
    /\ UNCHANGED <<result, calls, outcome, backup_file, file_id, cleaned, cleanup_arg,
                   exc, start_time, clock, config, cli, otherVars>>

\* cli.py, lines 45-56: how the `backup` command ends. A returned result is
\* summarized and the exit code follows result.success; a KeyboardInterrupt
\* prints "Backup cancelled by user" and exits with 1
CliOutcome(p, res) ==
    IF p = "raised"
    THEN [outcome |-> "cancelled", exit_code |-> Some(1)]
    ELSE IF res.success
    THEN [outcome |-> "success", exit_code |-> Some(0)]
    ELSE [outcome |-> "failed", exit_code |-> Some(1)]

CliExit ==
    /\ pc \in {"done", "raised"}
    /\ cli.exit_code = None
    /\ cli' = CliOutcome(pc, result)
    /\ UNCHANGED <<runVarsButCli, otherVars>>

Next ==
    \/ Start
    \/ ValidateSetup
    \/ AuthenticateBackupProvider
    \/ AuthenticateStorageProvider
    \/ AcquireTempDir
    \/ CreateBackup
    \/ Upload
    \/ ConfigureAccess
    \/ CleanupOldFiles
    \/ PrepareResult
    \/ CleanupLocalFiles
    \/ CliExit

Spec == Init /\ [][Next]_vars

\* execute_backup has returned `result`
Returned == pc = "done"

\* the provider operation op was invoked
Called(op) == \E i \in 1..Len(calls) : calls[i] = op

(***************************************************************************)
(* Properties of execute_backup.                                           *)
(***************************************************************************)
\* the position of a provider operation in the order of the stages
OpIndex(op) == CHOOSE i \in 1..Len(Operations) : Operations[i] = op

\* the provider operation returned a value that lets the run go on
Succeeded(op) ==
    IF op \in {"validate_setup", "backup.authenticate", "storage.authenticate"}
    THEN outcome[op] = "true"
    ELSE outcome[op] = "value"

\* the run ended in failure with the given error text
FailedWith(text) == ~result.success /\ result.error = Some(text)

\* C1: provider operations are invoked only in the order validate_setup,
\* source authenticate, sink authenticate, create_backup, upload,
\* configure_access, cleanup_old_files, each at most once, and none before
\* every earlier operation other than configure_access returned a success value.
C1_StagesInOrder ==
    /\ \A i, j \in 1..Len(calls) : i < j => OpIndex(calls[i]) < OpIndex(calls[j])
    /\ \A i \in 1..Len(calls) : \A k \in 1..(OpIndex(calls[i]) - 1) :
           Operations[k] # "configure_access" => Succeeded(Operations[k])

\* a run that invoked all seven operations and returned
C1_Witness == Returned /\ Len(calls) = Len(Operations)

\* C2: when configure_access raises after upload returned an id, the run
\* still returns success=true and cleanup_old_files is still invoked.
C2_SharingFailureTolerated ==
    (Returned /\ outcome["upload"] = "value" /\ outcome["configure_access"] = "raise")
        => (result.success /\ Called("cleanup_old_files"))

\* C3: when validate_setup returns false or raises, no authenticate and no
\* later operation is invoked and the run returns success=false with the
\* error "Setup validation failed".
C3_ValidationFailsFast ==
    outcome["validate_setup"] \in {"false", "raise"} =>
        /\ calls = <<"validate_setup">>
        /\ Returned => FailedWith(SetupValidationFailed)

\* a returned run whose validate_setup raised
C3_Witness == Returned /\ outcome["validate_setup"] = "raise"

\* C4: when the source's authenticate returns false or raises, the sink's
\* authenticate is never invoked and the run returns success=false with the
\* error "Provider authentication failed"; the same error results when the
\* sink's authenticate returns false or raises.
C4_AuthenticationGate ==
    /\ outcome["backup.authenticate"] \in {"false", "raise"} =>
           /\ ~Called("storage.authenticate")
           /\ Returned => FailedWith(ProviderAuthenticationFailed)
    /\ outcome["storage.authenticate"] \in {"false", "raise"} =>
           (Returned => FailedWith(ProviderAuthenticationFailed))

\* a returned run whose source authenticate returned false
C4_Witness == Returned /\ outcome["backup.authenticate"] = "false"

\* C5: when create_backup returns None, upload, configure_access and
\* cleanup_old_files are never called and the run returns success=false,
\* backup_id=None and the error "Backup creation failed".
C5_NoArtifactNoUpload ==
    outcome["create_backup"] = "none" =>
        /\ ~Called("upload")
        /\ ~Called("configure_access")
        /\ ~Called("cleanup_old_files")
        /\ Returned => (FailedWith(BackupCreationFailed) /\ result.backup_id = None)

\* a returned run whose create_backup returned None
C5_Witness == Returned /\ outcome["create_backup"] = "none"

\* C6: when upload returns None, configure_access and cleanup_old_files are
\* never called and the run returns success=false, backup_id=None,
\* files_cleaned=0 and the error "Upload failed".
C6_UploadFailure ==
    outcome["upload"] = "none" =>
        /\ ~Called("configure_access")
        /\ ~Called("cleanup_old_files")
        /\ Returned => /\ FailedWith(UploadFailedText)
                       /\ result.backup_id = None
                       /\ result.files_cleaned = 0

\* a returned run whose upload returned None
C6_Witness == Returned /\ outcome["upload"] = "none"

\* C7: when validate_setup and both authenticate calls succeed, create_backup
\* returns a path, upload returns an id I and cleanup_old_files returns a
\* count N, the run returns success=true, backup_id=I and files_cleaned=N,
\* and cleanup_old_files was called with the configured retention_days.
C7_SuccessfulRun ==
    (Returned /\ \A i \in 1..Len(Operations) :
                    Operations[i] # "configure_access" => Succeeded(Operations[i]))
        => /\ result.success
           /\ result.backup_id = file_id
           /\ file_id # None
           /\ result.files_cleaned = cleaned
           /\ cleanup_arg = Some(config.retention_days)

\* a returned run in which cleanup_old_files returned a count above zero
C7_Witness == Returned /\ outcome["cleanup_old_files"] = "value" /\ cleaned > 0

\* C8: whatever stage raised the exception that reached the handler of
\* execute_backup, the run returns success=false and the error
\* mask_sensitive_data(str(e)).
C8_ExceptionMeansFailed ==
    (Returned /\ exc # None)
        => (~result.success /\ result.error = Some(mask_sensitive_data(exc[1])))

\* C9: _cleanup_local_files runs exactly once on every way out of
\* execute_backup, no provider operation is invoked during or after it, and
\* it leaves the result unchanged whether or not it fails.
C9_LocalCleanupOnce ==
    /\ [](Returned => local_cleanups = 1)
    /\ [][local_cleanups' > 0 => calls' = calls]_vars
    /\ [][local_cleanups' # local_cleanups => result' = result]_vars

\* a returned run that ended by an exception and whose local cleanup failed:
\* backup_dir is still there although it is empty
C9_Witness ==
    /\ Returned
    /\ local_cleanups = 1
    /\ exc # None
    /\ fs.backup_dir
    /\ BackupDirEmpty(fs)

\* C10: after execute_backup returns, the temporary working directory of the
\* run does not exist.
C10_TempDirRemoved == Returned => fs.temp_dir # "exists"

\* a returned run that created its temporary directory and ended by an exception
C10_Witness == Returned /\ fs.temp_dir = "removed" /\ exc # None

\* C11: after execute_backup returns, successfully or not, no file produced
\* by the run remains on the local disk: neither the temporary directory nor
\* an archive that create_backup wrote under the configured backup directory.
C11_NoLocalFileRemains ==
    Returned => (fs.temp_dir # "exists" /\ fs.archive = "none")

\* C12: every result returned by execute_backup, successful or failed at any
\* stage, has its duration field set, to the time elapsed since the start.
C12_DurationAlwaysSet ==
    Returned => (result.duration # None /\ result.duration = Some(clock - start_time))

\* the `backup` command has ended
CliExited == cli.exit_code # None

\* C13: once a user interrupt has hit a stage, no further provider operation
\* is invoked, execute_backup does not return normally, the local cleanup
\* still runs once, and the command ends with the outcome "cancelled",
\* different from a failed run, and the exit code 1.
C13_InterruptCancels ==
    /\ [][interrupted => calls' = calls]_vars
    /\ [](interrupted => pc \in {"local_cleanup", "raised"})
    /\ []((interrupted /\ CliExited) =>
            /\ local_cleanups = 1
            /\ cli.outcome = "cancelled"
            /\ cli.exit_code = Some(1))
    /\ [](cli.outcome = "cancelled" => interrupted)

\* the upload was interrupted and the command has ended
C13_Witness ==
    /\ outcome["upload"] = "interrupt"
    /\ interrupted
    /\ CliExited
    /\ local_cleanups = 1

\* C14: every error text that the orchestrator or a provider writes to the
\* log from an exception message or from the stderr of a subprocess is the
\* masked form of that message, and so is the error stored on the result.
C14_AllErrorTextMasked ==
    /\ \A l \in log : l.text = mask_sensitive_data(l.exception)
    /\ (exc # None /\ result.error # None) =>
            result.error = Some(mask_sensitive_data(exc[1]))

(***************************************************************************)
(* SecretManager.mask_sensitive_data on its own: a text is masked, and the *)
(* masked text is masked once more, as happens when a message that was     *)
(* masked where it arose is masked again where it is logged.               *)
(***************************************************************************)
\* the longest input, in fragments
MaxFragments == 3

\* the pieces the input texts are put together from: keys, separators,
\* values, an email address, credentials in a URL, a sensitive path, a quote
Fragments ==
    <<<<"p", "a", "s", "s", "w", "o", "r", "d">>,
      <<"s", "e", "c", "r", "e", "t">>,
      <<"t", "o", "k", "e", "n">>,
      <<"a", "p", "i", "_", "k", "e", "y">>,
      <<"=">>,
      <<":", " ">>,
      <<"h", "u", "n", "t", "e", "r", "2">>,
      <<"a", "@", "b", ".", "c">>,
      <<"@", "d", ".", "e">>,
      <<"h", "t", "t", "p", "s", ":", "/", "/", "u", ":">>,
      <<"/", "k", "e", "y", "/">>,
      <<"\"">>>>

\* the texts made of at most n fragments
RECURSIVE Texts(_)
Texts(n) ==
    IF n = 0 THEN {<<>>}
    ELSE LET shorter == Texts(n - 1)
         IN  shorter \cup {a \o Fragments[i] : a \in shorter, i \in 1..Len(Fragments)}

MaskInit ==
    /\ RunIdle
    /\ secrets = SecretsIdle
    /\ validator = ValidatorIdle
    /\ ExtraIdle
    /\ masking \in {[MaskingIdle EXCEPT !.text = x] : x \in Texts(MaxFragments)}

\* mask_sensitive_data(text)
MaskOnce ==
    /\ masking.once = None
    /\ masking' = [masking EXCEPT !.once = Some(mask_sensitive_data(masking.text))]
    /\ UNCHANGED <<runVars, secrets, validator, extraVars>>

\* mask_sensitive_data(mask_sensitive_data(text))
MaskTwice ==
    /\ masking.once # None
    /\ masking.twice = None
    /\ masking' = [masking EXCEPT !.twice = Some(mask_sensitive_data(masking.once[1]))]
    /\ UNCHANGED <<runVars, secrets, validator, extraVars>>

NextMask ==
    \/ MaskOnce
    \/ MaskTwice

SpecMask == MaskInit /\ [][NextMask]_vars

(***************************************************************************)
(* Properties of mask_sensitive_data.                                      *)
(***************************************************************************)
\* the keys whose assignments carry a password, a secret, an API key or a token
SensitiveKeys == {KwPassword, <<"s", "e", "c", "r", "e", "t">>, KwApi \o <<"_">> \o KwKey, KwToken}

\* the value of the assignment whose key ends before position a of s
AssignedValue(s, a) ==
    LET m == MatchAssignTail(s, a) IN SubSeq(s, m.from, m.to - 1)

\* C15: in the output of mask_sensitive_data, every assignment of a
\* password, secret, API key or token (the key, then ':' or '=', then a
\* value) has the fixed mask *** as its value.
C15_NoUnmaskedAssignment ==
    masking.once # None =>
        \A k \in SensitiveKeys : \A p \in 1..Len(masking.once[1]) :
            (Lit(masking.once[1], p, k) /\ MatchAssignTail(masking.once[1], p + Len(k)).ok)
                => AssignedValue(masking.once[1], p + Len(k)) = Stars

\* C16: masking a masked text changes nothing:
\* mask_sensitive_data(mask_sensitive_data(x)) = mask_sensitive_data(x).
C16_MaskIdempotent ==
    masking.twice # None => masking.twice = masking.once

(***************************************************************************)
(* SecretManager.get_secret: the environment, the two env files and the    *)
(* interactive prompt.  A file is missing, unreadable, or a sequence of    *)
(* lines; what the user does at the prompt is typing a text, an interrupt, *)
(* or closing the input.                                                   *)
(***************************************************************************)
\* the longest .env.local and the longest .env, in lines
MaxLines == 2

MaxLinesEnv == 1

\* self.env_file_paths, lines 16-19
env_file_paths == <<".env.local", ".env">>

\* the keys asked for: a plain one and one with "password" in its name
Keys == {<<"K">>, <<"D", "B", "_", "P", "A", "S", "S", "W", "O", "R", "D">>}

\* the lines an env file is made of, for the key k: a value, an empty value,
\* a quoted value with blanks around, a comment, a line of another key
LineChoices(k) ==
    {k \o <<"=", "a">>, k \o <<"=">>, <<" ">> \o k \o <<" ", "=", " ", "'", "b", "'", " ">>, <<"#">> \o k \o <<"=", "c">>, <<"J", "=", "d">>}

\* the sequences of at most n elements of S
RECURSIVE SeqsUpTo(_, _)
SeqsUpTo(S, n) ==
    IF n = 0 THEN {<<>>}
    ELSE LET shorter == SeqsUpTo(S, n - 1)
         IN  shorter \cup {Append(a, x) : a \in shorter, x \in S}

EnvFiles(k, n) ==
    {[state |-> "missing", lines |-> <<>>], [state |-> "unreadable", lines |-> <<>>]}
        \cup {[state |-> "ok", lines |-> l] : l \in SeqsUpTo(LineChoices(k), n)}

\* the values of os.getenv(key): unset, empty, set
EnvironValues == {None, Some(<<>>), Some(<<"e">>)}

\* prompt_message: not given, empty, a message
PromptMessages == {None, Some(<<>>), Some(<<"m">>)}

\* what happens at the prompt: a text is typed, Ctrl-C, or the input ends
Typings ==
    {[kind |-> "text", text |-> x] : x \in {<<>>, <<" ">>, <<"p">>}}
        \cup {[kind |-> "interrupt", text |-> <<>>], [kind |-> "eof", text |-> <<>>]}

\* str.strip(chars) and its two halves
LStrip(s, S) == SubSeq(s, SpanIn(s, 1, S), Len(s))

RStrip(s, S) ==
    SubSeq(s, 1, CHOOSE q \in 0..Len(s) :
                    /\ (q = 0 \/ s[q] \notin S)
                    /\ \A r \in (q + 1)..Len(s) : s[r] \in S)

Strip(s, S) == RStrip(LStrip(s, S), S)

\* the position of the first c in s, or 0
IndexOf(s, c) ==
    IF c \in Range(s) THEN CHOOSE i \in 1..Len(s) : s[i] = c /\ \A j \in 1..(i - 1) : s[j] # c
    ELSE 0

\* lines 56-64 for one line: whether it is a line of the key, and its value
\* with blanks and surrounding quotes removed
ParseLine(line, k) ==
    LET l == Strip(line, SpaceChars)
        e == IndexOf(l, "=")
    IN  IF (Len(l) > 0 /\ l[1] = "#") \/ e = 0
        THEN [match |-> FALSE, value |-> <<>>]
        ELSE IF Strip(SubSeq(l, 1, e - 1), SpaceChars) = k
        THEN [match |-> TRUE,
              value |-> Strip(Strip(SubSeq(l, e + 1, Len(l)), SpaceChars), QuoteChars)]
        ELSE [match |-> FALSE, value |-> <<>>]

\* what the first line of the key, at or after line i, makes the loop return
RECURSIVE FirstKeyLine(_, _, _)
FirstKeyLine(lines, i, k) ==
    IF i > Len(lines) THEN None
    ELSE IF ParseLine(lines[i], k).match
    THEN (IF ParseLine(lines[i], k).value # <<>> THEN Some(ParseLine(lines[i], k).value) ELSE None)
    ELSE FirstKeyLine(lines, i + 1, k)

\* _load_from_env_file, lines 47-68
load_from_env_file(k, file) ==
    IF file.state # "ok" THEN None ELSE FirstKeyLine(file.lines, 1, k)

\* lines 42-45: the files in order, the first value that is not empty
RECURSIVE LoadFromFiles(_, _, _)
LoadFromFiles(k, files, i) ==
    IF i > Len(env_file_paths) THEN None
    ELSE IF load_from_env_file(k, files[env_file_paths[i]]) # None
    THEN load_from_env_file(k, files[env_file_paths[i]])
    ELSE LoadFromFiles(k, files, i + 1)

\* line 73: 'password' in key.lower() or 'secret' in key.lower()
HiddenInput(k) ==
    \E p \in 1..Len(k) : Lit(k, p, KwPassword) \/ Lit(k, p, <<"s", "e", "c", "r", "e", "t">>)

\* _prompt_for_secret, lines 70-80: getpass gives the text as typed, input
\* is stripped; Ctrl-C gives None; the end of the input raises EOFError
prompt_for_secret(k, typed) ==
    IF typed.kind = "interrupt" THEN [value |-> None, raised |-> FALSE]
    ELSE IF typed.kind = "eof" THEN [value |-> None, raised |-> TRUE]
    ELSE LET v == IF HiddenInput(k) THEN typed.text ELSE Strip(typed.text, SpaceChars)
         IN  [value |-> IF v # <<>> THEN Some(v) ELSE None, raised |-> FALSE]

\* whether line 48 finds a prompt message
PromptGiven(s) == s.prompt # None /\ s.prompt[1] # <<>>

\* get_secret, lines 22-45: the value returned, whether the user was
\* prompted, whether an exception left the call
get_secret(s) ==
    IF s.environ # None /\ s.environ[1] # <<>>
    THEN [value |-> s.environ, prompted |-> FALSE, raised |-> FALSE]
    ELSE IF LoadFromFiles(s.key, s.files, 1) # None
    THEN [value |-> LoadFromFiles(s.key, s.files, 1), prompted |-> FALSE, raised |-> FALSE]
    ELSE IF PromptGiven(s)
    THEN [value |-> prompt_for_secret(s.key, s.typed).value, prompted |-> TRUE,
          raised |-> prompt_for_secret(s.key, s.typed).raised]
    ELSE [value |-> None, prompted |-> FALSE, raised |-> FALSE]

SecretsInit ==
    /\ RunIdle
    /\ masking = MaskingIdle
    /\ validator = ValidatorIdle
    /\ ExtraIdle
    /\ \E k \in Keys, e \in EnvironValues, m \in PromptMessages, y \in Typings :
       \E f1 \in EnvFiles(k, MaxLines), f2 \in EnvFiles(k, MaxLinesEnv) :
        /\ (m = None \/ m[1] = <<>>) => y = SecretsIdle.typed
        /\ secrets = [SecretsIdle EXCEPT !.key = k, !.environ = e, !.prompt = m, !.typed = y,
                          !.files = [n \in {".env.local", ".env"} |->
                                        IF n = ".env.local" THEN f1 ELSE f2]]

GetSecret ==
    /\ ~secrets.done
    /\ secrets' = [secrets EXCEPT !.done = TRUE,
                                  !.value = get_secret(secrets).value,
                                  !.prompted = get_secret(secrets).prompted,
                                  !.raised = get_secret(secrets).raised]
    /\ UNCHANGED <<runVars, masking, validator, extraVars>>

NextSecrets == GetSecret

SpecSecrets == SecretsInit /\ [][NextSecrets]_vars

(***************************************************************************)
(* Properties of get_secret.                                               *)
(***************************************************************************)
\* the environment variable of the key is set to a non-empty value
EnvironHit == secrets.environ # None /\ secrets.environ[1] # <<>>

\* what the named file yields for the key
FileValue(n) == load_from_env_file(secrets.key, secrets.files[n])

\* C17: get_secret takes the first source that yields a value, in the order
\* environment variable (non-empty), .env.local, .env, interactive prompt;
\* the prompt is consulted only if a prompt message was given and no earlier
\* source yielded a value; without a prompt and without a hit it returns None.
C17_SourcePriority ==
    secrets.done =>
        /\ EnvironHit => (secrets.value = secrets.environ /\ ~secrets.prompted)
        /\ (~EnvironHit /\ FileValue(".env.local") # None) =>
                (secrets.value = FileValue(".env.local") /\ ~secrets.prompted)
        /\ (~EnvironHit /\ FileValue(".env.local") = None /\ FileValue(".env") # None) =>
                (secrets.value = FileValue(".env") /\ ~secrets.prompted)
        /\ secrets.prompted =>
                /\ secrets.prompt # None
                /\ ~EnvironHit
                /\ FileValue(".env.local") = None
                /\ FileValue(".env") = None
        /\ (secrets.prompt = None /\ ~EnvironHit /\ FileValue(".env.local") = None
              /\ FileValue(".env") = None) =>
                (secrets.value = None /\ ~secrets.raised)

\* both files have a value for the key, two different ones, and the
\* environment has an empty one
C17_Witness ==
    /\ secrets.done
    /\ secrets.environ = Some(<<>>)
    /\ FileValue(".env.local") # None
    /\ FileValue(".env") # None
    /\ FileValue(".env.local") # FileValue(".env")
    /\ secrets.value = FileValue(".env.local")

\* the non-empty values that the lines of the named file give to the key
ValuesIn(n) ==
    IF secrets.files[n].state # "ok" THEN {}
    ELSE {ParseLine(secrets.files[n].lines[i], secrets.key).value :
            i \in {j \in 1..Len(secrets.files[n].lines) :
                      /\ ParseLine(secrets.files[n].lines[j], secrets.key).match
                      /\ ParseLine(secrets.files[n].lines[j], secrets.key).value # <<>>}}

\* C18: when the environment gives no value, the first of .env.local, .env
\* in which some line gives the key a non-empty value decides: get_secret
\* returns one of that file's values, also when an earlier line of the file
\* gives the key an empty value.
C18_FirstFileWithValueWins ==
    (secrets.done /\ ~EnvironHit) =>
        /\ ValuesIn(".env.local") # {} =>
                (secrets.value # None /\ secrets.value[1] \in ValuesIn(".env.local"))
        /\ (ValuesIn(".env.local") = {} /\ ValuesIn(".env") # {}) =>
                (secrets.value # None /\ secrets.value[1] \in ValuesIn(".env"))

(***************************************************************************)
(* ConfigValidator: validate_full_config is called on one configuration    *)
(* after another; errors and warnings are the lists of the validator.  A   *)
(* text field that is absent or empty is "", a message is the pair of its  *)
(* fixed text and the value put into it.                                   *)
(***************************************************************************)
\* the number of calls of validate_full_config on one validator
MaxValidations == 2

Message(text, value) == [text |-> text, value |-> value]

\* _is_valid_domain, restricted to the domains of WordPressChoices
is_valid_domain(domain) == domain \in {"site.org", "example.com"}

\* line 41: the placeholder domains
PlaceholderDomains == {"example.com", "localhost", "test.com"}

\* _is_safe_path, restricted to the paths of WordPressChoices
is_safe_path(path) == path \in {"/var/www", "/var/backups"}

\* _is_valid_gdrive_folder, restricted to the folders of GoogleDriveChoices
is_valid_gdrive_folder(folder) == folder \in {"Backups"}

\* Path(creds_file).exists(): the files that are there
ExistingFiles == {"creds.json"}

\* _is_valid_email, restricted to the addresses of SharingChoices
is_valid_email(email) == email \in {"a@b.co"}

\* _is_valid_db_host and _is_valid_db_name, restricted to DatabaseChoices
is_valid_db_host(host) == host \in {"localhost"}

is_valid_db_name(db_name) == db_name \in {"wp"}

\* a value of retention_days with its Python type; a bool is an int whose
\* value is 0 or 1, as in Python
Retention(type, n) == [type |-> type, n |-> n]

\* isinstance(retention_days, int)
IsInstanceInt(v) == v.type \in {"int", "bool"}

\* lines 74-76: retention_days is given and is no int from 1 to 365
RetentionRejected(v) ==
    v.type # "none" /\ (~IsInstanceInt(v) \/ v.n < 1 \/ v.n > 365)

\* _validate_wordpress_config, lines 34-55
validate_wordpress_config(wp) ==
    [errors |->
        (IF wp.domain = "" THEN <<Message("WordPress domain is required", "")>>
         ELSE IF ~is_valid_domain(wp.domain)
         THEN <<Message("Invalid WordPress domain format: ", wp.domain)>>
         ELSE <<>>)
        \o (IF wp.path = "" THEN <<Message("WordPress path is required", "")>>
            ELSE IF ~is_safe_path(wp.path)
            THEN <<Message("WordPress path appears unsafe: ", wp.path)>>
            ELSE <<>>)
        \o (IF wp.backup_dir # "" /\ ~is_safe_path(wp.backup_dir)
            THEN <<Message("Backup directory appears unsafe: ", wp.backup_dir)>>
            ELSE <<>>),
     warnings |->
        IF wp.domain # "" /\ is_valid_domain(wp.domain) /\ wp.domain \in PlaceholderDomains
        THEN <<Message("WordPress domain looks like a placeholder: ", wp.domain)>>
        ELSE <<>>]

\* _validate_google_drive_config, lines 57-77
validate_google_drive_config(gd) ==
    [errors |->
        (IF gd.folder = "" THEN <<Message("Google Drive folder is required", "")>>
         ELSE IF ~is_valid_gdrive_folder(gd.folder)
         THEN <<Message("Invalid Google Drive folder path: ", gd.folder)>>
         ELSE <<>>)
        \o (IF gd.credentials_file = ""
            THEN <<Message("Google Drive credentials file is required", "")>>
            ELSE <<>>)
        \o (IF RetentionRejected(gd.retention_days)
            THEN <<Message("Retention days must be between 1 and 365", "")>>
            ELSE <<>>),
     warnings |->
        IF gd.credentials_file # "" /\ gd.credentials_file \notin ExistingFiles
        THEN <<Message("Google Drive credentials file not found: ", gd.credentials_file)>>
        ELSE <<>>]

\* lines 82-86: one error for each address that is not valid, in order
RECURSIVE EmailErrors(_, _)
EmailErrors(emails, i) ==
    IF i > Len(emails) THEN <<>>
    ELSE (IF ~is_valid_email(emails[i])
          THEN <<Message("Invalid email format: ", emails[i])>>
          ELSE <<>>) \o EmailErrors(emails, i + 1)

\* _validate_sharing_config, lines 79-96; make_public is "" when absent,
\* "true" or "false" when a bool, any other text when of another type
validate_sharing_config(sh) ==
    [errors |->
        EmailErrors(sh.emails, 1)
        \o (IF sh.role # "" /\ sh.role \notin {"reader", "writer"}
            THEN <<Message("Invalid sharing role: ", sh.role)>>
            ELSE <<>>)
        \o (IF sh.make_public # "" /\ sh.make_public \notin {"true", "false"}
            THEN <<Message("make_public must be a boolean value", "")>>
            ELSE <<>>),
     warnings |-> <<>>]

\* _validate_database_config, lines 98-113
validate_database_config(db) ==
    [errors |->
        (IF db.host = "" THEN <<Message("Database host is required", "")>> ELSE <<>>)
        \o (IF db.name = "" THEN <<Message("Database name is required", "")>> ELSE <<>>)
        \o (IF db.user = "" THEN <<Message("Database user is required", "")>> ELSE <<>>)
        \o (IF db.name # "" /\ ~is_valid_db_name(db.name)
            THEN <<Message("Invalid database name format: ", db.name)>>
            ELSE <<>>),
     warnings |->
        IF db.host # "" /\ ~is_valid_db_host(db.host)
        THEN <<Message("Database host format might be invalid: ", db.host)>>
        ELSE <<>>]

\* lines 21-22: self.errors.clear() and self.warnings.clear()
Cleared(list) == <<>>

\* lines 24-30: the sections that are validated, in order; the database
\* section only when it is given
Sections(c) ==
    <<validate_wordpress_config(c.wordpress),
      validate_google_drive_config(c.google_drive),
      validate_sharing_config(c.sharing)>>
        \o (IF c.database.given THEN <<validate_database_config(c.database)>> ELSE <<>>)

\* the messages of the reports from the i-th on, one list after the other
RECURSIVE Collect(_, _, _)
Collect(reports, field, i) ==
    IF i > Len(reports) THEN <<>>
    ELSE reports[i][field] \o Collect(reports, field, i + 1)

\* validate_full_config, lines 19-32: the validator after the call on c
validate_full_config(v, c) ==
    LET errors == Cleared(v.errors) \o Collect(Sections(c), "errors", 1)
        warnings == Cleared(v.warnings) \o Collect(Sections(c), "warnings", 1)
    IN  [errors |-> errors,
         warnings |-> warnings,
         config |-> Some(c),
         returns |-> Append(v.returns, Len(errors) = 0)]

\* get_validation_report, lines 209-215
get_validation_report(v) ==
    [errors |-> v.errors, warnings |-> v.warnings, is_valid |-> Len(v.errors) = 0]

\* the configurations validated: a sound, a placeholder and a broken
\* WordPress section
WordPressChoices ==
    {[domain |-> "site.org", path |-> "/var/www", backup_dir |-> "/var/backups"],
     [domain |-> "example.com", path |-> "/var/www", backup_dir |-> ""],
     [domain |-> "bad domain", path |-> "", backup_dir |-> "/etc/backups"],
     [domain |-> "", path |-> "/etc/www", backup_dir |-> ""]}

\* retention_days: absent, integers around both limits, a string, a float,
\* the two booleans
RetentionChoicesTyped ==
    {Retention("none", 0), Retention("str", 7), Retention("float", 7),
     Retention("bool", 1), Retention("bool", 0)}
        \cup {Retention("int", n) : n \in {-1, 0, 1, 2, 364, 365, 366}}

GoogleDriveChoices ==
    {[folder |-> f[1], credentials_file |-> f[2], retention_days |-> r] :
        f \in {<<"Backups", "creds.json">>, <<"Back:ups", "nocreds.json">>, <<"", "">>},
        r \in RetentionChoicesTyped}

SharingChoices ==
    {[emails |-> <<"a@b.co">>, role |-> "reader", make_public |-> "false"],
     [emails |-> <<"nobody", "a@b.co", "nobody">>, role |-> "owner", make_public |-> "yes"],
     [emails |-> <<>>, role |-> "", make_public |-> ""]}

DatabaseChoices ==
    {[given |-> FALSE, host |-> "", name |-> "", user |-> ""],
     [given |-> TRUE, host |-> "localhost", name |-> "wp", user |-> "u"],
     [given |-> TRUE, host |-> "db host", name |-> "bad-name", user |-> ""]}

Configs ==
    {[wordpress |-> w, google_drive |-> g, sharing |-> s, database |-> d] :
        w \in WordPressChoices, g \in GoogleDriveChoices,
        s \in SharingChoices, d \in DatabaseChoices}

ValidatorInit ==
    /\ RunIdle
    /\ masking = MaskingIdle
    /\ secrets = SecretsIdle
    /\ validator = ValidatorIdle
    /\ ExtraIdle

ValidateFullConfig ==
    /\ Len(validator.returns) < MaxValidations
    /\ \E c \in Configs : validator' = validate_full_config(validator, c)
    /\ UNCHANGED <<runVars, masking, secrets, extraVars>>

NextValidator == ValidateFullConfig

SpecValidator == ValidatorInit /\ [][NextValidator]_vars

(***************************************************************************)
(* Properties of ConfigValidator.                                          *)
(***************************************************************************)
\* the value the last call of validate_full_config returned
LastReturn == validator.returns[Len(validator.returns)]

\* C19: validate_full_config returns true exactly when the call found no
\* error, whatever warnings it found, and every call starts from an empty
\* report: after any sequence of calls get_validation_report holds the
\* errors and warnings of the last configuration only, and its is_valid is
\* what the last call returned.
C19_ReportOfLastCall ==
    validator.returns # <<>> =>
        /\ get_validation_report(validator).errors
              = Collect(Sections(validator.config[1]), "errors", 1)
        /\ get_validation_report(validator).warnings
              = Collect(Sections(validator.config[1]), "warnings", 1)
        /\ LastReturn <=> (Collect(Sections(validator.config[1]), "errors", 1) = <<>>)
        /\ get_validation_report(validator).is_valid = LastReturn

\* a call that found errors followed by a call that found warnings only
C19_Witness ==
    /\ validator.returns = <<FALSE, TRUE>>
    /\ validator.warnings # <<>>
    /\ validator.errors = <<>>

\* the error of the retention check
RetentionMessage == Message("Retention days must be between 1 and 365", "")

\* C20: a configured retention is accepted exactly when it is an integer
\* from 1 to 365: 0, 366, every other integer out of the range and every
\* value that is no integer give the retention error; 1, 365 and the
\* integers between give none.
C20_RetentionRange ==
    (validator.returns # <<>> /\ validator.config[1].google_drive.retention_days.type # "none") =>
        LET v == validator.config[1].google_drive.retention_days
        IN  (RetentionMessage \in Range(validator.errors))
                <=> ~(v.type \in {"int", "bool"} /\ v.n \in 1..365)

\* a configuration with retention 365 and no error at all
C20_Witness ==
    /\ validator.returns # <<>>
    /\ validator.config[1].google_drive.retention_days = Retention("int", 365)
    /\ LastReturn

(***************************************************************************)
(* ConfigValidator.sanitize_config_for_logging on its own.  A value of the *)
(* configuration is a string, an integer, a list of values or a dict; all  *)
(* four are records of one shape: the text of a string or integer, the     *)
(* items of a list (with empty keys) or of a dict.                          *)
(***************************************************************************)
\* the longest list of recipients
MaxEmails == 1

StrValue(x) == [kind |-> "str", text |-> x, items |-> <<>>]

IntValue(x) == [kind |-> "int", text |-> x, items |-> <<>>]

ListValue(xs) ==
    [kind |-> "list", text |-> <<>>,
     items |-> [i \in 1..Len(xs) |-> [key |-> <<>>, value |-> xs[i]]]]

DictValue(entries) == [kind |-> "dict", text |-> <<>>, items |-> entries]

Entry(k, v) == [key |-> k, value |-> v]

\* str.lower()
LowerText(s) == [i \in 1..Len(s) |-> Lower(s[i])]

\* line 195: the key names whose values are replaced
SensitiveKeyNames == {<<"p", "a", "s", "s", "w", "o", "r", "d">>, <<"s", "e", "c", "r", "e", "t">>, <<"t", "o", "k", "e", "n">>, <<"k", "e", "y">>}

\* [a-zA-Z0-9._%+-] and [a-zA-Z0-9.-] and [a-zA-Z]
EmailLocalChars ==
    Range(LowerCase) \cup Range(UpperCase) \cup Range(Digits) \cup {".", "_", "%", "+", "-"}

EmailDomainChars == Range(LowerCase) \cup Range(UpperCase) \cup Range(Digits) \cup {".", "-"}

Letters == Range(LowerCase) \cup Range(UpperCase)

\* the position of the last c in s, or 0
LastIndexOf(s, c) ==
    IF c \in Range(s) THEN CHOOSE i \in 1..Len(s) : s[i] = c /\ \A j \in (i + 1)..Len(s) : s[j] # c
    ELSE 0

\* _is_valid_email, lines 120-123, character by character:
\* ^[a-zA-Z0-9._%+-]+@[a-zA-Z0-9.-]+\.[a-zA-Z]{2,}$ ; the text has one @,
\* and the letters at the end start after the last dot ($ also matches
\* before a final newline)
EmailPattern(s) ==
    LET body == IF Len(s) > 0 /\ s[Len(s)] = "\n" THEN SubSeq(s, 1, Len(s) - 1) ELSE s
        at == IndexOf(body, "@")
        dot == LastIndexOf(body, ".")
    IN  /\ at > 1
        /\ \A i \in 1..(at - 1) : body[i] \in EmailLocalChars
        /\ dot > at + 1
        /\ \A i \in (at + 1)..(dot - 1) : body[i] \in EmailDomainChars
        /\ Len(body) - dot >= 2
        /\ \A i \in (dot + 1)..Len(body) : body[i] \in Letters

\* lines 200-201: value.split('@') and f"***@{parts[1]}", for a text with one @
MaskedEmail(s) == Stars \o <<"@">> \o SubSeq(s, IndexOf(s, "@") + 1, Len(s))

\* lines 193-205 for one item of a dict: a dict is walked, a value under a
\* sensitive key is replaced, a string with @ and . that is an email address
\* is partly masked, anything else (a list too) is taken over as it is
RECURSIVE sanitize_config_for_logging(_)
SanitizedItem(item) ==
    IF item.value.kind = "dict"
    THEN Entry(item.key, sanitize_config_for_logging(item.value))
    ELSE IF LowerText(item.key) \in SensitiveKeyNames
    THEN Entry(item.key, StrValue(Stars))
    ELSE IF item.value.kind = "str" /\ "@" \in Range(item.value.text)
            /\ "." \in Range(item.value.text)
    THEN (IF EmailPattern(item.value.text)
          THEN Entry(item.key, StrValue(MaskedEmail(item.value.text)))
          ELSE item)
    ELSE item

\* sanitize_config_for_logging, lines 188-207
sanitize_config_for_logging(cfg) ==
    DictValue([i \in 1..Len(cfg.items) |-> SanitizedItem(cfg.items[i])])

\* the strings of the configurations: two addresses, a text that is none,
\* a text without @
LeafTexts == {<<"a", "@", "b", ".", "c", "o">>, <<"u", "@", "d", ".", "o", "r", "g">>, <<"a", "@", "b">>, <<"x", ".", "y">>}

\* the configurations: strings at the top, under a sensitive key, in the
\* list of recipients and in a dict inside a dict, next to an integer
SanitizerConfigs ==
    {DictValue(<<Entry(<<"a", "d", "m", "i", "n">>, StrValue(a)),
                 Entry(<<"P", "a", "s", "s", "w", "o", "r", "d">>, StrValue(b)),
                 Entry(<<"s", "h", "a", "r", "i", "n", "g">>,
                       DictValue(<<Entry(<<"e", "m", "a", "i", "l", "s">>, ListValue([i \in 1..Len(l) |-> StrValue(l[i])])),
                                   Entry(<<"t", "o", "k", "e", "n">>, StrValue(b)),
                                   Entry(<<"o", "w", "n", "e", "r">>, DictValue(<<Entry(<<"c", "o", "n", "t", "a", "c", "t">>, StrValue(c))>>))>>)),
                 Entry(<<"r", "e", "t", "e", "n", "t", "i", "o", "n", "_", "d", "a", "y", "s">>, IntValue(<<"7">>))>>) :
        a \in LeafTexts, b \in LeafTexts, c \in LeafTexts, l \in SeqsUpTo(LeafTexts, MaxEmails)}

SanitizerInit ==
    /\ RunIdle
    /\ masking = MaskingIdle
    /\ secrets = SecretsIdle
    /\ validator = ValidatorIdle
    /\ drive = DriveIdle
    /\ command = CommandIdle
    /\ runs = RunsIdle
    /\ \E c \in SanitizerConfigs :
        sanitizer = [SanitizerIdle EXCEPT !.config = c, !.before = c]

\* one call; the dict passed in is read only
SanitizeConfigForLogging ==
    /\ ~sanitizer.done
    /\ sanitizer' = [sanitizer EXCEPT !.output = sanitize_config_for_logging(sanitizer.config),
                                      !.done = TRUE]
    /\ UNCHANGED <<runVars, masking, secrets, validator, drive, command, runs>>

NextSanitizer == SanitizeConfigForLogging

SpecSanitizer == SanitizerInit /\ [][NextSanitizer]_vars

(***************************************************************************)
(* Properties of sanitize_config_for_logging.                              *)
(***************************************************************************)
\* what the walk of the whole structure is to give: under a sensitive key
\* the mask, for an email address at any depth, in dicts and in lists, the
\* masked address, anything else unchanged
RECURSIVE FullySanitized(_, _)
FullySanitized(k, v) ==
    IF v.kind \in {"dict", "list"}
    THEN [v EXCEPT !.items = [i \in 1..Len(v.items) |->
                                Entry(v.items[i].key,
                                      FullySanitized(v.items[i].key, v.items[i].value))]]
    ELSE IF LowerText(k) \in SensitiveKeyNames THEN StrValue(Stars)
    ELSE IF v.kind = "str" /\ EmailPattern(v.text) THEN StrValue(MaskedEmail(v.text))
    ELSE v

\* C21: the output of sanitize_config_for_logging is the input with every
\* value under a key named password, secret, token or key replaced by the
\* mask and every email address, at any depth and inside lists too, masked
\* up to its domain, everything else unchanged; the input is not modified.
C21_SanitizedEverywhere ==
    sanitizer.done =>
        /\ sanitizer.output = FullySanitized(<<>>, sanitizer.before)
        /\ sanitizer.config = sanitizer.before

(***************************************************************************)
(* GoogleDriveProvider: one instance, called in any order, and the Drive   *)
(* account behind it.  service is "none" or tells whether the credential   *)
(* it was built from was valid; folder_id is set or not; files are the     *)
(* creation times, in hours, of the objects in the backup folder.          *)
(***************************************************************************)
\* token.pickle: missing, not loadable, or a credential that is valid,
\* expired with a refresh token, expired without one, or without a token
TokenStates == {"missing", "corrupt", "valid", "expired", "expired_no_refresh", "invalid"}

\* lines 43-50: the credential after the load; a file that cannot be loaded
\* leaves none
LoadedCredential(token_file) ==
    IF token_file \in {"missing", "corrupt"} THEN "none" ELSE token_file

\* line 54: creds and creds.expired and creds.refresh_token
Refreshable(cred) == cred = "expired"

\* lines 53-61: the credential after the refresh step
AfterRefresh(cred, refresh) ==
    IF cred \in {"none", "valid"} THEN cred
    ELSE IF Refreshable(cred) THEN (IF refresh = "ok" THEN "valid" ELSE "none")
    ELSE cred

\* line 63: if not creds
RunsOAuthFlow(cred) == cred = "none"

\* authenticate, lines 37-88.  refresh, flow, build and test are what the
\* refresh request, the grant flow, build() and the connection test do when
\* they are reached; a request with a credential that is not valid fails
authenticate(d, refresh, flow, build, test) ==
    LET loaded == LoadedCredential(d.token_file)
        cred1 == AfterRefresh(loaded, refresh)
        refreshed == IF loaded # "valid" /\ Refreshable(loaded)
                     THEN (IF refresh = "ok" THEN "ok" ELSE "failed") ELSE "no"
        flows == loaded # "valid" /\ RunsOAuthFlow(cred1)
        flowed == IF flows THEN (IF flow = "ok" THEN "ok" ELSE "failed") ELSE "no"
        cred2 == IF flows /\ flow = "ok" THEN "valid" ELSE cred1
        token2 == IF flows /\ flow = "ok" THEN "valid" ELSE d.token_file
        builds == flowed # "failed" /\ build = "ok"
        built == IF ~builds THEN "none" ELSE IF cred2 = "valid" THEN "valid" ELSE "invalid"
        ok == builds /\ cred2 = "valid" /\ test = "ok"
    IN  [d EXCEPT !.token_file = token2,
                  !.service = IF builds THEN built ELSE d.service,
                  !.authenticated = d.authenticated \/ ok,
                  !.last = [NoCall EXCEPT !.op = "authenticate",
                                          !.returned = IF ok THEN "true" ELSE "false",
                                          !.api_calls = IF builds THEN 1 ELSE 0,
                                          !.token = d.token_file,
                                          !.loaded = loaded,
                                          !.refreshed = refreshed,
                                          !.flow = flowed,
                                          !.built = built,
                                          !.service_before = d.service,
                                          !.folder_before = d.folder_id]]

DriveAuthenticate ==
    /\ drive.phase = "live"
    /\ \E refresh \in {"ok", "failed"}, flow \in {"ok", "failed"},
          build \in {"ok", "raise"}, test \in {"ok", "failed"} :
        drive' = authenticate(drive, refresh, flow, build, test)
    /\ UNCHANGED <<runVars, masking, secrets, validator, sanitizer, command, runs>>

\* datetime.now() in UTC, in hours, and the length of timedelta(days=1)
Now == 1000

HoursPerDay == 24

\* the creation times of the objects that may be in the backup folder: one
\* day, an hour less than seven days, and ten days before Now
FileTimes == {Now - 24, Now - 167, Now - 240}

\* the offset of the local time zone from UTC, in hours
UtcOffsets == {0, 2}

\* the values of retention_days
RetentionArgs == {1, 7}

\* the most recipients in a sharing configuration
MaxRecipients == 2

\* sharing_config.emails: the first recipients of a fixed list
Recipients == <<"a@x.org", "b@y.org", "c@z.org">>

SharingConfigs ==
    {[emails |-> SubSeq(Recipients, 1, n), make_public |-> p] :
        n \in 0..(IF MaxRecipients < Len(Recipients) THEN MaxRecipients ELSE Len(Recipients)),
        p \in BOOLEAN}

\* upload, lines 225-274.  resolve is what _find_or_create_backup_folder
\* does when it is reached ("found", "created" or "failed"), transfer what
\* the chunked upload does; requests through a service whose credential is
\* not valid fail
upload(d, resolve, transfer) ==
    LET usable == d.service = "valid"
        resolves == d.service # "none" /\ ~d.folder_id
        resolved == resolves /\ usable /\ resolve # "failed"
        folder == d.folder_id \/ resolved
        transfers == d.service # "none" /\ folder
        sent == transfers /\ usable /\ transfer = "ok"
    IN  [d EXCEPT !.folder_id = folder,
                  !.resolutions = d.resolutions + (IF resolved THEN 1 ELSE 0),
                  !.files = IF sent THEN d.files \cup {Now} ELSE d.files,
                  !.last = [NoCall EXCEPT !.op = "upload",
                                          !.returned = IF sent THEN "id" ELSE "none",
                                          !.api_calls = (IF resolves THEN 1 ELSE 0)
                                                          + (IF resolved /\ resolve = "created"
                                                             THEN 1 ELSE 0)
                                                          + (IF transfers THEN 1 ELSE 0),
                                          !.resolved = resolved,
                                          !.service_before = d.service,
                                          !.folder_before = d.folder_id,
                                          !.files_before = d.files]]

\* lines 328-349 and 352-370: after the grant at position i of n failed in
\* its try block, the next grant to attempt
AfterFailedGrant(i, n) == i + 1

\* the grants attempted from position i of the targets on; a grant fails
\* when its position is in failing
RECURSIVE GrantsFrom(_, _, _)
GrantsFrom(targets, i, failing) ==
    IF i > Len(targets) THEN <<>>
    ELSE IF i \in failing
    THEN <<[who |-> targets[i], ok |-> FALSE]>>
            \o GrantsFrom(targets, AfterFailedGrant(i, Len(targets)), failing)
    ELSE <<[who |-> targets[i], ok |-> TRUE]>> \o GrantsFrom(targets, i + 1, failing)

\* whom configure_access is to grant access: every recipient, then anyone
\* when the folder is to be public
GrantTargets(sc) == sc.emails \o (IF sc.make_public THEN <<"anyone">> ELSE <<>>)

\* configure_access, lines 314-394
configure_access(d, sc, failing) ==
    LET nothing == sc.emails = <<>> /\ ~sc.make_public
        grants == IF nothing \/ ~d.folder_id THEN <<>>
                  ELSE GrantsFrom(GrantTargets(sc), 1,
                                  IF d.service = "valid" THEN failing
                                  ELSE 1..Len(GrantTargets(sc)))
    IN  [d EXCEPT !.last = [NoCall EXCEPT !.op = "configure_access",
                                          !.returned = IF nothing \/ d.folder_id
                                                       THEN "true" ELSE "false",
                                          !.api_calls = IF nothing \/ ~d.folder_id THEN 0
                                                        ELSE Len(grants) + 1,
                                          !.emails = sc.emails,
                                          !.make_public = sc.make_public,
                                          !.grants = grants,
                                          !.service_before = d.service,
                                          !.folder_before = d.folder_id,
                                          !.files_before = d.files]]

\* lines 406-407: datetime.now() is the local time, and its ISO text is sent
\* with the suffix 'Z' of UTC
CutoffSent(d, retention_days) == (Now + d.utc_offset) - retention_days * HoursPerDay

\* cleanup_old_files, lines 396-439.  list is what the files().list request
\* does when it is reached, failing the objects whose deletion fails
cleanup_old_files(d, retention_days, list, failing) ==
    LET lists == d.folder_id
        listed == IF lists /\ d.service = "valid" /\ list = "ok"
                  THEN {f \in d.files : f < CutoffSent(d, retention_days)}
                  ELSE {}
        deleted == listed \ failing
    IN  [d EXCEPT !.files = d.files \ deleted,
                  !.last = [NoCall EXCEPT !.op = "cleanup_old_files",
                                          !.returned = "count",
                                          !.count = Cardinality(deleted),
                                          !.api_calls = (IF lists THEN 1 ELSE 0)
                                                          + Cardinality(listed),
                                          !.retention_days = retention_days,
                                          !.listed = lists /\ d.service = "valid" /\ list = "ok",
                                          !.attempted = listed,
                                          !.failing = failing,
                                          !.service_before = d.service,
                                          !.folder_before = d.folder_id,
                                          !.files_before = d.files]]

DriveInit ==
    /\ RunIdle
    /\ masking = MaskingIdle
    /\ secrets = SecretsIdle
    /\ validator = ValidatorIdle
    /\ sanitizer = SanitizerIdle
    /\ command = CommandIdle
    /\ runs = RunsIdle
    /\ \E token_file \in TokenStates, files \in SUBSET FileTimes, utc_offset \in UtcOffsets :
        drive = [DriveIdle EXCEPT !.phase = "live", !.token_file = token_file,
                                  !.files = files, !.utc_offset = utc_offset]

DriveUpload ==
    /\ drive.phase = "live"
    /\ \E resolve \in {"found", "created", "failed"}, transfer \in {"ok", "failed"} :
        drive' = upload(drive, resolve, transfer)
    /\ UNCHANGED <<runVars, masking, secrets, validator, sanitizer, command, runs>>

DriveConfigureAccess ==
    /\ drive.phase = "live"
    /\ \E sc \in SharingConfigs : \E failing \in SUBSET (1..Len(GrantTargets(sc))) :
        drive' = configure_access(drive, sc, failing)
    /\ UNCHANGED <<runVars, masking, secrets, validator, sanitizer, command, runs>>

DriveCleanupOldFiles ==
    /\ drive.phase = "live"
    /\ \E retention_days \in RetentionArgs, list \in {"ok", "failed"},
          failing \in SUBSET drive.files :
        drive' = cleanup_old_files(drive, retention_days, list, failing)
    /\ UNCHANGED <<runVars, masking, secrets, validator, sanitizer, command, runs>>

NextDrive ==
    \/ DriveAuthenticate
    \/ DriveUpload
    \/ DriveConfigureAccess
    \/ DriveCleanupOldFiles

SpecDrive == DriveInit /\ [][NextDrive]_vars

(***************************************************************************)
(* Properties of GoogleDriveProvider.                                      *)
(***************************************************************************)
\* whom the grants of the last configure_access were attempted for, in order
GrantsAttempted == [i \in 1..Len(drive.last.grants) |-> drive.last.grants[i].who]

\* C22: when the folder is known and sharing is requested, configure_access
\* attempts the grant of every recipient and, if requested, the public
\* grant, whichever of them fail, and returns true.
C22_AllGrantsAttempted ==
    (drive.last.op = "configure_access" /\ drive.last.folder_before
        /\ GrantTargets(drive.last) # <<>>) =>
        /\ GrantsAttempted = GrantTargets(drive.last)
        /\ drive.last.returned = "true"

\* the first grant failed, two more were attempted, and the last succeeded
C22_Witness ==
    /\ drive.last.op = "configure_access"
    /\ Len(drive.last.grants) = 3
    /\ ~drive.last.grants[1].ok
    /\ drive.last.grants[3].ok

\* the objects of the folder older than retention_days at the last cleanup
OlderThanRetention ==
    {f \in drive.last.files_before : f < Now - drive.last.retention_days * HoursPerDay}

\* C23: cleanup_old_files attempts to delete only objects older than
\* now - retention_days, all of them when the listing succeeds, goes on
\* after a failed deletion, and returns the number of objects it deleted;
\* without a folder it returns 0 and deletes nothing.
C23_CleanupExactlyOld ==
    drive.last.op = "cleanup_old_files" =>
        /\ drive.last.attempted \subseteq OlderThanRetention
        /\ drive.last.listed => drive.last.attempted = OlderThanRetention
        /\ drive.last.count = Cardinality(drive.last.attempted \ drive.last.failing)
        /\ drive.files = drive.last.files_before \ (drive.last.attempted \ drive.last.failing)
        /\ ~drive.last.folder_before =>
                (drive.last.count = 0 /\ drive.last.attempted = {})

\* C24: a token file that cannot be loaded is discarded and the grant flow
\* is run; the grant flow is run only when the load gave no valid
\* credential and no refresh succeeded, and a refresh is tried only on a
\* loaded credential that is not valid.
C24_CorruptTokenRecovered ==
    drive.last.op = "authenticate" =>
        /\ drive.last.token = "corrupt" =>
                /\ drive.last.loaded = "none"
                /\ drive.last.flow # "no"
                /\ drive.last.flow = "ok" => drive.last.built # "invalid"
        /\ drive.last.flow # "no" =>
                (drive.last.loaded # "valid" /\ drive.last.refreshed # "ok")
        /\ drive.last.refreshed # "no" => drive.last.loaded \notin {"none", "valid"}
        /\ drive.last.loaded = "valid" =>
                (drive.last.refreshed = "no" /\ drive.last.flow = "no")

\* authenticate found a corrupt token file and returned true
C24_Witness ==
    /\ drive.last.op = "authenticate"
    /\ drive.last.token = "corrupt"
    /\ drive.last.flow = "ok"
    /\ drive.last.returned = "true"

\* C28: the service is never built from a credential that is not valid and
\* authenticate never returns true with one; when the loaded credential is
\* not valid and is not refreshed, the grant flow is run or authenticate
\* returns false.
C28_NoInvalidCredential ==
    /\ drive.service # "invalid"
    /\ drive.last.op = "authenticate" =>
        /\ drive.last.built # "invalid"
        /\ drive.last.returned = "true" => drive.last.built = "valid"
        /\ (drive.last.loaded \notin {"none", "valid"} /\ drive.last.refreshed # "ok") =>
                (drive.last.flow # "no" \/ drive.last.returned = "false")

\* C29: upload before a successful authenticate returns None without an API
\* call; cleanup_old_files without a resolved folder returns 0 and deletes
\* nothing; configure_access with sharing requested and no resolved folder
\* returns false and grants nothing; the folder is resolved at most once.
C29_CallOrderGuards ==
    /\ (drive.last.op = "upload" /\ ~drive.authenticated) =>
            (drive.last.returned = "none" /\ drive.last.api_calls = 0)
    /\ (drive.last.op = "cleanup_old_files" /\ ~drive.last.folder_before) =>
            (drive.last.count = 0 /\ drive.last.api_calls = 0
                /\ drive.files = drive.last.files_before)
    /\ (drive.last.op = "configure_access" /\ ~drive.last.folder_before
            /\ GrantTargets(drive.last) # <<>>) =>
            (drive.last.returned = "false" /\ drive.last.grants = <<>>)
    /\ drive.resolutions <= 1

(***************************************************************************)
(* The commands of cli.py.  A command that returns ends the process with   *)
(* exit code 0, sys.exit(n) ends it with n, and a KeyboardInterrupt that   *)
(* leaves the command function makes click abort with exit code 1.         *)
(***************************************************************************)
Ended(succeeded, failure, exit_code) ==
    [succeeded |-> succeeded, failure |-> failure, exit_code |-> Some(exit_code)]

\* how a command ends that returns without sys.exit
Returns(succeeded, failure) == Ended(succeeded, failure, 0)

\* how a command ends when a KeyboardInterrupt leaves its function
ClickAbort == Ended(FALSE, "cancel", 1)

\* backup, lines 24-62.  load is what load_config does, run how
\* execute_backup ends
backup(dry_run, load, run) ==
    IF load = "error" THEN Ended(FALSE, "load", 1)
    ELSE IF dry_run THEN Returns(TRUE, "none")
    ELSE IF run = "success" THEN Ended(TRUE, "none", 0)
    ELSE IF run = "failure" THEN Ended(FALSE, "result", 1)
    ELSE IF run = "interrupt" THEN Ended(FALSE, "cancel", 1)
    ELSE Ended(FALSE, "exception", 1)

\* init, lines 65-93.  exists is whether .env.local exists, response what
\* input() gives, template what create_env_template does
init(exists, response, template) ==
    IF exists /\ response = "interrupt" THEN ClickAbort
    ELSE IF exists /\ response = "eof" THEN Returns(FALSE, "exception")
    ELSE IF exists /\ response # "y" THEN Returns(FALSE, "none")
    ELSE IF template = "raise" THEN Returns(FALSE, "exception")
    ELSE Returns(TRUE, "none")

\* lines 109 and 120: which connections test tests
TestsWordPress(test_wordpress, test_gdrive) == test_wordpress \/ ~(test_wordpress \/ test_gdrive)

TestsGDrive(test_wordpress, test_gdrive) == test_gdrive \/ ~(test_wordpress \/ test_gdrive)

\* test, lines 96-134: the rest of the command from the Google Drive test on
test_gdrive_part(tests, gd_auth) ==
    IF ~tests THEN Returns(TRUE, "none")
    ELSE IF gd_auth = "raise" THEN Returns(FALSE, "exception")
    ELSE IF gd_auth = "false" THEN Returns(FALSE, "connection")
    ELSE Returns(TRUE, "none")

\* test, lines 96-134
test(test_wordpress, test_gdrive, load, wp_validate, wp_auth, gd_auth) ==
    LET rest == test_gdrive_part(TestsGDrive(test_wordpress, test_gdrive), gd_auth)
    IN  IF load = "error" THEN Returns(FALSE, "load")
        ELSE IF ~TestsWordPress(test_wordpress, test_gdrive) THEN rest
        ELSE IF wp_validate = "raise" THEN Returns(FALSE, "exception")
        ELSE IF wp_validate = "false" THEN Returns(FALSE, "connection")
        ELSE IF wp_auth = "raise" THEN Returns(FALSE, "exception")
        ELSE IF wp_auth = "false" THEN Returns(FALSE, "connection")
        ELSE rest

\* security_scan, lines 137-180.  scan is whether one of the two checks
\* raises, issues and env_issues whether they report something
security_scan(scan, issues, env_issues) ==
    IF scan = "raise" THEN Returns(FALSE, "exception")
    ELSE Returns(~issues /\ ~env_issues, "none")

Answers == {"true", "false", "raise"}

Invoked(name, ended) ==
    [CommandIdle EXCEPT !.name = name, !.phase = "exited",
                        !.succeeded = ended.succeeded, !.failure = ended.failure,
                        !.exit_code = ended.exit_code]

CommandInit ==
    /\ RunIdle
    /\ masking = MaskingIdle
    /\ secrets = SecretsIdle
    /\ validator = ValidatorIdle
    /\ sanitizer = SanitizerIdle
    /\ drive = DriveIdle
    /\ runs = RunsIdle
    /\ command = [CommandIdle EXCEPT !.phase = "ready"]

Backup ==
    /\ command.phase = "ready"
    /\ \E dry_run \in BOOLEAN, load \in {"ok", "error"},
          run \in {"success", "failure", "raise", "interrupt"} :
        command' = [Invoked("backup", backup(dry_run, load, run))
                        EXCEPT !.dry_run = dry_run, !.load = load, !.run = run]
    /\ UNCHANGED <<runVars, masking, secrets, validator, sanitizer, drive, runs>>

InitCommand ==
    /\ command.phase = "ready"
    /\ \E exists \in BOOLEAN, response \in {"y", "Y", "n", "", "eof", "interrupt"},
          template \in {"ok", "raise"} :
        command' = [Invoked("init", init(exists, Lower(response), template))
                        EXCEPT !.exists = exists, !.response = response,
                               !.template = template]
    /\ UNCHANGED <<runVars, masking, secrets, validator, sanitizer, drive, runs>>

Test ==
    /\ command.phase = "ready"
    /\ \E test_wordpress \in BOOLEAN, test_gdrive \in BOOLEAN, load \in {"ok", "error"},
          wp_validate \in Answers, wp_auth \in Answers, gd_auth \in Answers :
        command' = [Invoked("test", test(test_wordpress, test_gdrive, load,
                                         wp_validate, wp_auth, gd_auth))
                        EXCEPT !.test_wordpress = test_wordpress,
                               !.test_gdrive = test_gdrive, !.load = load,
                               !.wp_validate = wp_validate, !.wp_auth = wp_auth,
                               !.gd_auth = gd_auth]
    /\ UNCHANGED <<runVars, masking, secrets, validator, sanitizer, drive, runs>>

SecurityScan ==
    /\ command.phase = "ready"
    /\ \E scan \in {"ok", "raise"}, issues \in BOOLEAN, env_issues \in BOOLEAN :
        command' = [Invoked("security_scan", security_scan(scan, issues, env_issues))
                        EXCEPT !.scan = scan, !.issues = issues,
                               !.env_issues = env_issues]
    /\ UNCHANGED <<runVars, masking, secrets, validator, sanitizer, drive, runs>>

NextCommand ==
    \/ Backup
    \/ InitCommand
    \/ Test
    \/ SecurityScan

SpecCommand == CommandInit /\ [][NextCommand]_vars

\* C25: a command that has ended has exit code 0 only if nothing failed in
\* it (no failed backup result, configuration load error, failed connection
\* test, raised exception or cancellation), and exit code 1 if something did.
C25_ExitCodeTellsFailure ==
    command.phase = "exited" =>
        /\ command.exit_code = Some(0) => command.failure = "none"
        /\ command.failure # "none" => command.exit_code = Some(1)

(***************************************************************************)
(* Further properties of the backup run.                                   *)
(***************************************************************************)
\* C26: the archive is at its final name under the backup directory only
\* when it is complete; in particular, after create_backup returned None no
\* partially written archive is there.
C26_NoPartialArchive ==
    /\ fs.archive # "partial"
    /\ outcome["create_backup"] = "none" => fs.archive \in {"none", "complete"}

\* C27: in every result that execute_backup returns, success=true comes with
\* no error and a backup_id, and success=false with an error and no
\* backup_id.
C27_ResultWellFormed ==
    Returned =>
        /\ result.success => (result.error = None /\ result.backup_id # None)
        /\ ~result.success => (result.error # None /\ result.backup_id = None)

(***************************************************************************)
(* Two backup runs, A and B, of two processes configured with the same     *)
(* backup directory.  A step is one file system call of                    *)
(* _create_combined_backup or of _cleanup_local_files.                     *)
(***************************************************************************)
RunsInit ==
    /\ RunIdle
    /\ masking = MaskingIdle
    /\ secrets = SecretsIdle
    /\ validator = ValidatorIdle
    /\ sanitizer = SanitizerIdle
    /\ drive = DriveIdle
    /\ command = CommandIdle
    /\ \E dir \in BOOLEAN, other_files \in BOOLEAN :
        /\ other_files => dir
        /\ runs = [RunsIdle EXCEPT !.phase = "live", !.dir = dir,
                                   !.other_files = other_files]

runsUnchanged == UNCHANGED <<runVars, masking, secrets, validator, sanitizer, drive, command>>

\* backup_dir has no entry (iterdir yields nothing, rmdir can remove it)
SharedDirEmpty(s) == ~s.other_files /\ \A r \in RunIds : s.files[r] = "none"

\* backup.py lines 40-56: the run fails before create_backup reaches
\* _create_combined_backup and goes to the finally clause, or it reaches it
RunStart(r) ==
    /\ runs.phase = "live" /\ runs.pc[r] = "start"
    /\ \E early \in BOOLEAN :
        runs' = [runs EXCEPT !.pc[r] = IF early THEN "exists" ELSE "makedirs",
                             !.create[r] = IF early THEN "not_reached" ELSE "pending"]
    /\ runsUnchanged

\* wordpress.py line 325: os.makedirs(backup_dir, exist_ok=True)
Makedirs(r) ==
    /\ runs.phase = "live" /\ runs.pc[r] = "makedirs"
    /\ \E io \in {"ok", "raise"} :
        runs' = IF io = "ok"
                THEN [runs EXCEPT !.dir = TRUE, !.pc[r] = "open"]
                ELSE [runs EXCEPT !.create[r] = "makedirs_failed", !.pc[r] = "exists"]
    /\ runsUnchanged

\* wordpress.py line 334: tarfile.open(backup_file, "w:gz") creates the
\* archive file, and fails when the directory is not there
TarOpen(r) ==
    /\ runs.phase = "live" /\ runs.pc[r] = "open"
    /\ runs' = IF runs.dir
               THEN [runs EXCEPT !.files[r] = "partial", !.pc[r] = "add"]
               ELSE [runs EXCEPT !.create[r] = "no_directory", !.pc[r] = "exists"]
    /\ runsUnchanged

\* wordpress.py lines 335-339: the members are added and the archive is
\* closed, or an exception leaves it as it is
TarAdd(r) ==
    /\ runs.phase = "live" /\ runs.pc[r] = "add"
    /\ \E io \in {"ok", "raise"} :
        runs' = IF io = "ok"
                THEN [runs EXCEPT !.files[r] = "complete", !.create[r] = "ok",
                                  !.pc[r] = "upload"]
                ELSE [runs EXCEPT !.create[r] = "add_failed", !.pc[r] = "exists"]
    /\ runsUnchanged

\* backup.py line 59: upload reads the archive that create_backup returned
RunUpload(r) ==
    /\ runs.phase = "live" /\ runs.pc[r] = "upload"
    /\ runs' = [runs EXCEPT !.upload[r] = IF runs.dir /\ runs.files[r] = "complete"
                                          THEN "read" ELSE "no_file",
                            !.pc[r] = "exists"]
    /\ runsUnchanged

\* backup.py line 151: backup_dir.exists()
CleanupExists(r) ==
    /\ runs.phase = "live" /\ runs.pc[r] = "exists"
    /\ runs' = [runs EXCEPT !.pc[r] = IF runs.dir THEN "iterdir" ELSE "done"]
    /\ runsUnchanged

\* backup.py line 154: not any(backup_dir.iterdir())
CleanupIterdir(r) ==
    /\ runs.phase = "live" /\ runs.pc[r] = "iterdir"
    /\ runs' = [runs EXCEPT !.pc[r] = IF runs.dir /\ SharedDirEmpty(runs)
                                      THEN "rmdir" ELSE "done"]
    /\ runsUnchanged

\* backup.py lines 155-158: backup_dir.rmdir() removes the directory when
\* it is there and empty, and its OSError is passed over otherwise
CleanupRmdir(r) ==
    /\ runs.phase = "live" /\ runs.pc[r] = "rmdir"
    /\ runs' = [runs EXCEPT !.dir = IF SharedDirEmpty(runs) THEN FALSE ELSE runs.dir,
                            !.pc[r] = "done"]
    /\ runsUnchanged

NextRuns ==
    \E r \in RunIds :
        \/ RunStart(r)
        \/ Makedirs(r)
        \/ TarOpen(r)
        \/ TarAdd(r)
        \/ RunUpload(r)
        \/ CleanupExists(r)
        \/ CleanupIterdir(r)
        \/ CleanupRmdir(r)

SpecRuns == RunsInit /\ [][NextRuns]_vars

\* C30: of two runs that share the backup directory, neither one's local
\* cleanup makes the other's create_backup fail by removing the directory
\* between its makedirs and its archive write, and neither loses the
\* archive it wrote before it has uploaded it.
C30_RunsDoNotDisturb ==
    \A r \in RunIds :
        /\ runs.create[r] # "no_directory"
        /\ runs.upload[r] # "no_file"
        /\ runs.create[r] = "ok" => (runs.dir /\ runs.files[r] = "complete")

====
